---- MODULE Spec2Model ----
(***************************************************************************)
(* Symbol graph, structural builder, reference resolution and reference   *)
(* index of the UnrealScript language service.                            *)
(*                                                                         *)
(* Objects live in two heaps addressed by handles <<document, generation, *)
(* index>>: `symbols' (field and struct symbols) and `types' (type        *)
(* reference objects).  A document text is the parse tree handed to the   *)
(* tree-walk listener, written as the sequence of enter/exit events.      *)
(* Identifiers are interned names, written in their case-folded form.     *)
(***************************************************************************)
EXTENDS Integers, Sequences, FiniteSets, TLC

VARIABLES
    symbols,            \* heap of symbol objects: handle -> record
    types,              \* heap of type reference objects: handle -> record
    SymbolsTable,       \* global table: class name -> class handle
    IndexedReferences,  \* global reference index: target hash -> set of records
    docClass,           \* document.class per document (NoRef when absent)
    docNodes,           \* document.nodes per document (diagnostic nodes)
    docRefs,            \* document.indexReferencesMade per document
    gen,                \* number of times each document has been parsed
    last,               \* the operation the last step performed: its name, document
                        \* and text, whether it repeats the step before it, (for
                        \* invalidate) the hashes the document had referenced and
                        \* (for indexDocument) whether an exception was thrown,
                        \* whether one left the link, and the symbols index was
                        \* called on, in the order of the calls
    response,           \* the request being answered and its reply, until the
                        \* connection has sent the reply (NoResponse otherwise)
    server              \* the language server's workspace state: the settings
                        \* applied, documentsMap, the open text documents, the
                        \* pending-document pipeline and the running handler

vars == <<symbols, types, SymbolsTable, IndexedReferences, docClass, docNodes,
          docRefs, gen, last, response, server>>

\* ---------------------------------------------------------------- bounds
MaxGen == 2

\* ------------------------------------------------------------ vocabulary
NoRef == <<>>
NoName == ""
PackageRef == <<"package">>
Thrown == <<"thrown">>
NoResponse == [method |-> "none"]
NoRequest == [doc |-> NoName, isDirty |-> FALSE, text |-> 0]

Docs == {"x", "y"}

KindPackage == "Package"
KindClass == "Class"
KindInterface == "Interface"
KindEnum == "Enum"
KindState == "State"
KindStruct == "Struct"
KindType == "Type"
KindNone == "Unspecified"

\* Names of the packages registered in the packages table.
PackagesTable == {"core"}

\* ------------------------------------------------------- parse-tree events
Ev(ev, name, ext, tname, tkind, members) ==
    [ev |-> ev, name |-> name, ext |-> ext, tname |-> tname, tkind |-> tkind,
     members |-> members]

EnterClass(name, ext) == Ev("enterClassDecl", name, ext, NoName, KindNone, <<>>)
EnterState(name, ext, ignores) == Ev("enterStateDecl", name, ext, NoName, KindNone, ignores)
ExitState == Ev("exitStateDecl", NoName, NoName, NoName, KindNone, <<>>)
EnterStruct(name, ext) == Ev("enterStructDecl", name, ext, NoName, KindNone, <<>>)
ExitStruct == Ev("exitStructDecl", NoName, NoName, NoName, KindNone, <<>>)
EnterEnum(name, members) == Ev("enterEnumDecl", name, NoName, NoName, KindNone, members)
ExitEnum == Ev("exitEnumDecl", NoName, NoName, NoName, KindNone, <<>>)
EnterFunction(name) == Ev("enterFunctionDecl", name, NoName, NoName, KindNone, <<>>)
ExitFunction == Ev("exitFunctionDecl", NoName, NoName, NoName, KindNone, <<>>)
\* "var <tname> <names>;" whose type reference is constructed with the kind
\* hint tkind
VarDecl(names, tname, tkind) == Ev("enterVarDecl", NoName, NoName, tname, tkind, names)
\* "var class<inner> <names>;"
VarClassDecl(names, inner) == Ev("enterVarDecl", NoName, inner, "class", KindNone, names)
\* an error node of the parse tree
ErrorNode == Ev("visitErrorNode", NoName, NoName, NoName, KindNone, <<>>)
EnterDefaultProperties == Ev("enterDefaultPropertiesBlock", NoName, NoName, NoName, KindNone, <<>>)
ExitDefaultProperties == Ev("exitDefaultPropertiesBlock", NoName, NoName, NoName, KindNone, <<>>)

\* ------------------------------------------------------------ heap objects
SymHandle(d, g, n) == <<d, g, n>>

NewSymbol(kind, name, range) ==
    [kind |-> kind, name |-> name, range |-> range, outer |-> NoRef,
     next |-> NoRef, children |-> NoRef, super |-> NoRef, extendsType |-> NoRef,
     type |-> NoRef, value |-> -1, ignoreRefs |-> <<>>, overriddenState |-> NoRef]

NewType(name, range, validTypeKind, outer) ==
    [name |-> name, range |-> range, validTypeKind |-> validTypeKind,
     reference |-> NoRef, baseType |-> NoRef, outer |-> outer]

StructKinds == {"Class", "State", "Struct", "Enum", "Method"}

IsStruct(sym, h) == h \in DOMAIN sym /\ sym[h].kind \in StructKinds

\* ------------------------------------------------------ structural builder
\* Builder state b: the two heaps, the global table, the scope stack
\* (document.context), document.class and the allocation counters.

\* UCDocument.get: top of the scope stack, or the document's package
Get(b) == IF Len(b.stack) > 0 THEN b.stack[Len(b.stack)] ELSE PackageRef

\* UCDocument.push
Push(b, h) == [b EXCEPT !.stack = Append(b.stack, h)]

\* UCDocument.pop (Array.pop on an empty array changes nothing)
Pop(b) == [b EXCEPT !.stack = IF Len(b.stack) > 0
                                THEN SubSeq(b.stack, 1, Len(b.stack) - 1)
                                ELSE b.stack]

\* UCStructSymbol.addSymbol: the new symbol becomes the head of the chain
AddSymbol(sym, struct, h) ==
    [sym EXCEPT ![h].outer = struct,
                ![h].next = sym[struct].children,
                ![struct].children = h]

\* UCPackage.addSymbol: the package keeps its symbols by name
PackageAddSymbol(b, h) ==
    [b EXCEPT !.sym = [b.sym EXCEPT ![h].outer = PackageRef],
              !.tbl = [n \in DOMAIN b.tbl \cup {b.sym[h].name} |->
                          IF n = b.sym[h].name THEN h ELSE b.tbl[n]]]

\* UCDocument.declare
Declare(b, h) ==
    IF Get(b) = PackageRef
    THEN PackageAddSymbol(b, h)
    ELSE [b EXCEPT !.sym = AddSymbol(b.sym, Get(b), h)]

\* Allocation of a symbol object / a type reference object
Alloc(b, rec) == [b EXCEPT !.sym = b.sym @@ (<<b.d, b.g, b.n>> :> rec), !.n = b.n + 1]
AllocType(b, rec) == [b EXCEPT !.typ = b.typ @@ (<<b.d, b.g, b.tn>> :> rec), !.tn = b.tn + 1]
NextSym(b) == <<b.d, b.g, b.n>>
NextType(b) == <<b.d, b.g, b.tn>>

\* UCDocument.visitExtendsClause, attached to the symbol h
WithExtends(b, h, e, line, kind, outer) ==
    IF e.ext = NoName THEN b
    ELSE LET t == NextType(b)
             b1 == AllocType(b, NewType(e.ext, <<line, 1>>, kind, outer))
         IN [b1 EXCEPT !.sym = [b1.sym EXCEPT ![h].extendsType = t]]

\* A class modifier of the declaration: its identifier and its arguments,
\* if it has any
Modifier(id, values) == [id |-> id, arguments |-> TRUE, values |-> values]
BareModifier(id) == [id |-> id, arguments |-> FALSE, values |-> <<>>]

\* idNode.text.toLowerCase() for the identifiers the texts use
ToLowerCase(id) ==
    CASE id = "DependsOn" -> "dependson"
      [] id = "Implements" -> "implements"
      [] id = "Native" -> "native"
      [] OTHER -> id

\* classSymbol.dependsOnTypes / implementsTypes before the first assignment
NoTypes == [defined |-> FALSE, types |-> <<>>]

\* new UCDocumentClassSymbol(...); classSymbol.context = ctx
NewClassSymbol(name, range, ctx) ==
    [kind |-> "Class", name |-> name, range |-> range, outer |-> NoRef,
     next |-> NoRef, children |-> NoRef, super |-> NoRef, extendsType |-> NoRef,
     type |-> NoRef, value |-> -1, ignoreRefs |-> <<>>, overriddenState |-> NoRef,
     context |-> ctx, dependsOnTypes |-> NoTypes, implementsTypes |-> NoTypes]

\* if (!list) list = []; then a new type symbol is pushed for every value of
\* the m-th modifier
RECURSIVE PushTypes(_, _, _, _)
PushTypes(list, values, m, j) ==
    IF j > Len(values) THEN [list EXCEPT !.defined = TRUE]
    ELSE PushTypes([list EXCEPT !.types = Append(@, NewType(values[j], <<m, j>>, KindClass, NoRef))],
                   values, m, j + 1)

\* A switch on the modifier's identifier whose dependson case ends with a
\* break
DependsOnOnly(cls, mod, m) ==
    IF mod.arguments
    THEN [cls EXCEPT !.dependsOnTypes = PushTypes(@, mod.values, m, 1)]
    ELSE cls

\* case 'implements'
CaseImplements(cls, mod, m) ==
    IF mod.arguments
    THEN [cls EXCEPT !.implementsTypes = PushTypes(@, mod.values, m, 1)]
    ELSE cls

\* case 'dependson', which has no break and runs on into case 'implements'
CaseDependsOn(cls, mod, m) ==
    CaseImplements(IF mod.arguments
                   THEN [cls EXCEPT !.dependsOnTypes = PushTypes(@, mod.values, m, 1)]
                   ELSE cls,
                   mod, m)

\* switch (idNode.text.toLowerCase())
ClassModifier(cls, mod, m) ==
    CASE ToLowerCase(mod.id) = "dependson" -> CaseDependsOn(cls, mod, m)
      [] ToLowerCase(mod.id) = "implements" -> CaseImplements(cls, mod, m)
      [] OTHER -> cls

\* for (let modifierNode of modifierNodes)
RECURSIVE ClassModifiers(_, _, _)
ClassModifiers(cls, modifiers, m) ==
    IF m > Len(modifiers) THEN cls
    ELSE ClassModifiers(ClassModifier(cls, modifiers[m], m), modifiers, m + 1)

\* ctx.classModifier()
ModifierNodes(e) == IF "modifiers" \in DOMAIN e THEN e.modifiers ELSE <<>>

WithModifiers(b, h, e) ==
    [b EXCEPT !.sym = [@ EXCEPT ![h] = ClassModifiers(@, ModifierNodes(e), 1)]]

\* UCDocument.enterClassDecl
EnterClassDecl(b, e, line) ==
    LET h == NextSym(b)
        b1 == Alloc(b, NewClassSymbol(e.name, <<line, 0>>, e))
        b2 == [b1 EXCEPT !.cls = h]
        b3 == WithModifiers(WithExtends(b2, h, e, line, KindClass, h), h, e)
    IN Push(Declare(b3, h), h)

\* UCDocument.enterStructDecl
EnterStructDecl(b, e, line) ==
    IF e.name = NoName THEN b
    ELSE LET h == NextSym(b)
             b1 == Alloc(b, NewSymbol("Struct", e.name, <<line, 0>>))
             b2 == WithExtends(b1, h, e, line, KindStruct, NoRef)
         IN Push(Declare(b2, h), h)

\* The ignores list of a state: one symbol reference per ignored name
RECURSIVE WithIgnores(_, _, _, _, _)
WithIgnores(b, h, names, line, j) ==
    IF j > Len(names) THEN b
    ELSE LET t == NextType(b)
             b1 == AllocType(b, NewType(names[j], <<line, 1 + j>>, KindNone, h))
         IN WithIgnores([b1 EXCEPT !.sym = [b1.sym EXCEPT ![h].ignoreRefs = Append(@, t)]],
                        h, names, line, j + 1)

\* UCDocument.enterStateDecl
EnterStateDecl(b, e, line) ==
    IF e.name = NoName THEN b
    ELSE LET h == NextSym(b)
             b1 == Alloc(b, NewSymbol("State", e.name, <<line, 0>>))
             b2 == WithExtends(b1, h, e, line, KindState, NoRef)
             b3 == WithIgnores(b2, h, e.members, line, 1)
         IN Push(Declare(b3, h), h)

\* UCDocument.enterFunctionDecl
EnterFunctionDecl(b, e, line) ==
    IF e.name = NoName THEN b
    ELSE LET h == NextSym(b)
             b1 == Alloc(b, NewSymbol("Method", e.name, <<line, 0>>))
         IN Push(Declare(b1, h), h)

\* The member loop of enterEnumDecl: values count up from 0
RECURSIVE EnumMembers(_, _, _, _, _)
EnumMembers(b, enum, names, line, j) ==
    IF j > Len(names) THEN b
    ELSE LET h == NextSym(b)
             b1 == Alloc(b, NewSymbol("EnumMember", names[j], <<line, j>>))
             b2 == Declare(b1, h)
             b3 == [b2 EXCEPT !.sym = [b2.sym EXCEPT ![h].outer = enum,
                                                     ![h].value = j - 1]]
         IN EnumMembers(b3, enum, names, line, j + 1)

\* UCDocument.enterEnumDecl
EnterEnumDecl(b, e, line) ==
    IF e.name = NoName THEN b
    ELSE LET h == NextSym(b)
             b1 == Alloc(b, NewSymbol("Enum", e.name, <<line, 0>>))
             b2 == Push(Declare(b1, h), h)
         IN EnumMembers(b2, h, e.members, line, 1)

\* The variable loop of enterVarDecl: every property shares the type object t
RECURSIVE VarProperties(_, _, _, _, _)
VarProperties(b, t, names, line, j) ==
    IF j > Len(names) THEN b
    ELSE IF names[j] = NoName
    THEN [b EXCEPT !.exc = TRUE]   \* varIdNode.start of a variable without identifier
    ELSE LET h == NextSym(b)
             b1 == Alloc(b, [NewSymbol("Property", names[j], <<line, 1 + j>>)
                                EXCEPT !.type = t])
             b2 == Declare(b1, h)
             b3 == [b2 EXCEPT !.typ = [b2.typ EXCEPT ![t].outer = b2.sym[h].outer]]
         IN VarProperties(b3, t, names, line, j + 1)

\* visitClassType and the end of visitTypeDecl: the inner type of
\* "class<inner>" is a class reference, the base type of the type t
VisitClassType(b, t, inner, line) ==
    [AllocType(b, NewType(inner, <<line, 0>>, KindClass, t))
        EXCEPT !.typ[t].baseType = NextType(b)]

\* UCDocument.enterVarDecl
EnterVarDecl(b, e, line) ==
    IF e.tname = NoName THEN b
    ELSE LET t == NextType(b)
             b1 == AllocType(b, NewType(e.tname, <<line, 1>>, e.tkind, Get(b)))
             b2 == IF e.ext = NoName THEN b1 ELSE VisitClassType(b1, t, e.ext, line)
         IN VarProperties(b2, t, e.members, line, 1)

\* UCDocument.enterDefaultPropertiesBlock: the block is named by its keyword
EnterDefaultPropertiesBlock(b, line) ==
    Push(Declare(Alloc(b, NewSymbol("DefaultPropertiesBlock", "defaultproperties",
                                    <<line, 0>>)),
                 NextSym(b)),
         NextSym(b))

\* UCDocument.visitErrorNode
VisitErrorNode(b, line) ==
    [b EXCEPT !.nodes = Append(b.nodes, [node |-> "SyntaxErrorNode", range |-> <<line, 0>>])]

\* One event of the tree walk
Walk(b, e, line) ==
    CASE e.ev = "enterClassDecl" -> EnterClassDecl(b, e, line)
      [] e.ev = "enterStructDecl" -> EnterStructDecl(b, e, line)
      [] e.ev = "enterStateDecl" -> EnterStateDecl(b, e, line)
      [] e.ev = "enterFunctionDecl" -> EnterFunctionDecl(b, e, line)
      [] e.ev = "enterEnumDecl" -> EnterEnumDecl(b, e, line)
      [] e.ev = "enterVarDecl" -> EnterVarDecl(b, e, line)
      [] e.ev = "visitErrorNode" -> VisitErrorNode(b, line)
      [] e.ev = "enterDefaultPropertiesBlock" -> EnterDefaultPropertiesBlock(b, line)
      [] OTHER -> Pop(b)   \* exitStructDecl, exitStateDecl, exitFunctionDecl, exitEnumDecl,
                           \* exitDefaultPropertiesBlock

RECURSIVE WalkFrom(_, _, _)
WalkFrom(b, text, i) ==
    IF b.exc \/ i > Len(text) THEN b ELSE WalkFrom(Walk(b, text[i], i), text, i + 1)

\* UCDocument.parse: enterProgram resets the scope stack, the walk builds the tree
Parse(sym, typ, tbl, cls, nodes, d, g, text) ==
    WalkFrom([sym |-> sym, typ |-> typ, tbl |-> tbl, stack |-> <<>>, cls |-> cls,
              nodes |-> nodes, exc |-> FALSE, d |-> d, g |-> g, n |-> 0, tn |-> 0], text, 1)

\* ------------------------------------------------------------ name lookup
\* Depth of the deepest lookup recursion the runtime stack is modelled to hold
MaxDepth == 12

AnyKind == {"any"}

\* UCStateSymbol.getTypeFlags
StateTypeFlags == {"State"}

\* UCEnumMemberSymbol.getTypeFlags
EnumMemberTypeFlags == {"Byte"}

\* getTypeFlags of the remaining symbol kinds
FieldTypeFlags(kind) ==
    CASE kind = "Class" -> {"Class"}
      [] kind = "Struct" -> {"Struct"}
      [] kind = "Enum" -> {"Enum"}
      [] kind = "Method" -> {"Function"}
      [] kind = "DefaultPropertiesBlock" -> {}
      [] OTHER -> {"Property"}

\* child.getTypeFlags() by dynamic dispatch
GetTypeFlags(rec) ==
    CASE rec.kind = "State" -> StateTypeFlags
      [] rec.kind = "EnumMember" -> EnumMemberTypeFlags
      [] OTHER -> FieldTypeFlags(rec.kind)

\* The loop of UCStructSymbol.getSymbol, from chain element c on
RECURSIVE ChainFind(_, _, _, _)
ChainFind(sym, c, id, kind) ==
    IF c = NoRef THEN NoRef
    ELSE IF sym[c].name = id /\ (kind = AnyKind \/ GetTypeFlags(sym[c]) \cap kind # {})
         THEN c
         ELSE ChainFind(sym, sym[c].next, id, kind)

\* UCStructSymbol.getSymbol
GetSymbol(sym, s, id, kind) == ChainFind(sym, sym[s].children, id, kind)

\* a ?? b and a || b on lookup results: a unless it is undefined
OrElse(a, b) == IF a # NoRef THEN a ELSE b

RECURSIVE FindSuperSymbol(_, _, _, _, _)

\* A lookup that never leaves the struct it starts in
OwnSymbolOnly(sym, s, id, kind, fuel) == GetSymbol(sym, s, id, kind)

\* UCStructSymbol.findSuperSymbol
StructFindSuperSymbol(sym, s, id, kind, fuel) ==
    OrElse(GetSymbol(sym, s, id, kind),
           IF sym[s].super = NoRef THEN NoRef
           ELSE FindSuperSymbol(sym, sym[s].super, id, kind, fuel - 1))

\* UCStateSymbol.findSuperSymbol
StateFindSuperSymbol(sym, s, id, kind, fuel) ==
    OrElse(StructFindSuperSymbol(sym, s, id, kind, fuel),
           FindSuperSymbol(sym, sym[s].outer, id, kind, fuel - 1))

\* x.findSuperSymbol(id, kind) by dynamic dispatch.  A receiver without the
\* method (TypeError) and an exhausted call stack (RangeError) both throw.
FindSuperSymbol(sym, s, id, kind, fuel) ==
    IF fuel = 0 \/ ~IsStruct(sym, s) THEN Thrown
    ELSE IF sym[s].kind = "State"
         THEN StateFindSuperSymbol(sym, s, id, kind, fuel)
         ELSE StructFindSuperSymbol(sym, s, id, kind, fuel)

\* SymbolsTable.findSymbol(id, true)
SymbolsTableFind(tbl, id) == IF id \in DOMAIN tbl THEN tbl[id] ELSE NoRef

\* PackagesTable.findSymbol(id, false)
PackagesTableFind(id) == IF id \in PackagesTable THEN <<"package", id>> ELSE NoRef

IsPackage(h) == Len(h) = 2 /\ h[1] = "package"

\* symbol instanceof UCFieldSymbol
IsField(sym, h) == h \in DOMAIN sym

\* UCFieldSymbol.isType: the symbol can be used as the type of a declaration
IsType(sym, h) == sym[h].kind \in {"Class", "Struct", "Enum"}

\* symbol.getHash(): the qualified name of the symbol
RECURSIVE GetHash(_, _)
GetHash(sym, h) ==
    IF IsPackage(h) THEN <<h[2]>>
    ELSE IF h \notin DOMAIN sym THEN <<>>
    ELSE GetHash(sym, sym[h].outer) \o <<sym[h].name>>

\* ------------------------------------------------------- reference records
\* Adds ref to the set kept under key in the map m (a function on its keys)
MapAdd(m, key, ref) ==
    [k \in DOMAIN m \cup {key} |->
        IF k = key THEN (IF key \in DOMAIN m THEN m[key] ELSE {}) \cup {ref}
        ELSE m[k]]

\* getIndexedReferences
getIndexedReferences(idx, qualifiedId) ==
    IF qualifiedId \in DOMAIN idx THEN idx[qualifiedId] ELSE {}

\* An addition that starts a new set for the hash each time
addToNewSet(idx, qualifiedId, ref) ==
    [k \in DOMAIN idx \cup {qualifiedId} |-> IF k = qualifiedId THEN {ref} ELSE idx[k]]

\* addIndexedReference
addIndexedReference(idx, qualifiedId, ref) ==
    LET indexedRefs == getIndexedReferences(idx, qualifiedId) \cup {ref}
    IN [k \in DOMAIN idx \cup {qualifiedId} |->
           IF k = qualifiedId THEN indexedRefs ELSE idx[k]]

\* A removal that drops the whole entry of the hash, whoever made its records
unsetWholeEntry(idx, qualifiedId, refs) ==
    [k \in DOMAIN idx \ {qualifiedId} |-> idx[k]]

\* A removal that keeps the entry of the hash when its set has become empty
unsetKeepsEntry(idx, qualifiedId, refs) ==
    IF qualifiedId \notin DOMAIN idx THEN idx
    ELSE [idx EXCEPT ![qualifiedId] = @ \ refs]

\* unsetIndexedReferences
unsetIndexedReferences(idx, qualifiedId, refs) ==
    IF qualifiedId \notin DOMAIN idx THEN idx
    ELSE LET indexedRefs == idx[qualifiedId] \ refs
         IN IF indexedRefs = {}
            THEN [k \in DOMAIN idx \ {qualifiedId} |-> idx[k]]
            ELSE [idx EXCEPT ![qualifiedId] = indexedRefs]

\* Linker state st: the heaps, the document's references-made map, the
\* global index, the number of records created, and whether an exception
\* is propagating (every step of a method is skipped while one is).

\* UCDocument.indexReference: the record enters the document's own map and
\* the global index under the target's hash
IndexReference(st, target, ref) ==
    [st EXCEPT !.made = MapAdd(st.made, GetHash(st.sym, target), ref),
               !.idx = addIndexedReference(st.idx, GetHash(st.sym, target), ref),
               !.nrec = st.nrec + 1]

\* A fresh record object; oid is its identity
NewRecord(st, range, symbol) ==
    [location |-> [uri |-> st.d, range |-> range], symbol |-> symbol,
     oid |-> <<st.d, st.g, st.nrec>>]

\* UCObjectTypeSymbol.setReference
SetReference(st, t, symbol) ==
    IndexReference([st EXCEPT !.typ = [st.typ EXCEPT ![t].reference = symbol]],
                   symbol, NewRecord(st, st.typ[t].range, t))

Throw(st) == [st EXCEPT !.exc = TRUE]

\* A lookup that tries the global table and then the context chain whatever
\* the hint is
TypeLookupAnyTable(st, id, validTypeKind, context) ==
    OrElse(SymbolsTableFind(st.tbl, id),
           FindSuperSymbol(st.sym, context, id, AnyKind, MaxDepth))

\* A lookup that for an unspecified hint tries the context chain before the
\* global table
TypeLookupContextFirst(st, id, validTypeKind, context) ==
    CASE validTypeKind = KindPackage -> PackagesTableFind(id)
      [] validTypeKind \in {KindClass, KindInterface} -> SymbolsTableFind(st.tbl, id)
      [] validTypeKind \in {KindEnum, KindStruct, KindState} ->
            FindSuperSymbol(st.sym, context, id, AnyKind, MaxDepth)
      [] OTHER ->
            OrElse(FindSuperSymbol(st.sym, context, id, AnyKind, MaxDepth),
                   SymbolsTableFind(st.tbl, id))

\* The lookup of UCObjectTypeSymbol.index by kind hint
TypeLookup(st, id, validTypeKind, context) ==
    CASE validTypeKind = KindPackage -> PackagesTableFind(id)
      [] validTypeKind \in {KindClass, KindInterface} -> SymbolsTableFind(st.tbl, id)
      [] validTypeKind \in {KindEnum, KindStruct, KindState} ->
            FindSuperSymbol(st.sym, context, id, AnyKind, MaxDepth)
      [] OTHER ->
            OrElse(SymbolsTableFind(st.tbl, id),
                   FindSuperSymbol(st.sym, context, id, AnyKind, MaxDepth))

\* A filter that lets every looked-up symbol through
TypeFilterNone(st, validTypeKind, symbol) == symbol

\* The filter of UCObjectTypeSymbol.index for the generic Type hint (the
\* exception of a lookup that threw passes by it)
TypeFilter(st, validTypeKind, symbol) ==
    IF /\ symbol # Thrown
       /\ validTypeKind = KindType
       /\ ~(IsField(st.sym, symbol) /\ IsType(st.sym, symbol))
    THEN NoRef
    ELSE symbol

\* symbol && ref.setReference(symbol, document); a lookup that threw
\* propagates its exception
SetIfFound(st, t, symbol) ==
    IF symbol = Thrown THEN Throw(st)
    ELSE IF symbol = NoRef THEN st
    ELSE SetReference(st, t, symbol)

RECURSIVE ObjectTypeIndex(_, _, _)

\* this.baseType && this.baseType.index(document, context)
IndexBaseType(st, t, context) ==
    IF st.exc \/ st.typ[t].baseType = NoRef THEN st
    ELSE ObjectTypeIndex(st, st.typ[t].baseType, context)

\* An index that looks the name up again although the reference is already
\* resolved
ObjectTypeIndexAgain(st, t, context) ==
    IF st.exc \/ context = NoRef THEN st
    ELSE IndexBaseType(
            SetIfFound(st, t,
                TypeFilter(st, st.typ[t].validTypeKind,
                    TypeLookup(st, st.typ[t].name, st.typ[t].validTypeKind, context))),
            t, context)

\* UCObjectTypeSymbol.index
ObjectTypeIndex(st, t, context) ==
    IF st.exc \/ st.typ[t].reference # NoRef \/ context = NoRef THEN st
    ELSE IndexBaseType(
            SetIfFound(st, t,
                TypeFilter(st, st.typ[t].validTypeKind,
                    TypeLookup(st, st.typ[t].name, st.typ[t].validTypeKind, context))),
            t, context)

\* UCPropertySymbol.index: resolves the type of the declaration
PropertyIndex(st, h, context) ==
    IF st.sym[h].type = NoRef THEN st
    ELSE ObjectTypeIndex(st, st.sym[h].type, context)

RECURSIVE IndexSymbol(_, _, _)
RECURSIVE IndexByKind(_, _, _)

\* A loop without the try: the exception of a child stays raised
NotCaught(st) == st

\* catch (err) { console.error(...) } of the children loop
Caught(st) == [st EXCEPT !.exc = FALSE, !.caught = IF st.exc THEN @ + 1 ELSE @]

\* The children loop of UCStructSymbol.index: an exception of one child is
\* caught and logged, the loop goes on with child.next
RECURSIVE IndexChildren(_, _, _)
IndexChildren(st, child, struct) ==
    IF st.exc \/ child = NoRef THEN st
    ELSE IndexChildren(Caught(IndexSymbol(st, child, struct)), st.sym[child].next, struct)

\* this.super = this.extendsType.getRef() unless super is already set
AssignSuper(st, h) ==
    IF ~st.exc /\ st.sym[h].super = NoRef
    THEN [st EXCEPT !.sym = [st.sym EXCEPT ![h].super = st.typ[st.sym[h].extendsType].reference]]
    ELSE st

\* The extends clause of UCStructSymbol.index
IndexExtends(st, h, context) ==
    IF st.exc \/ st.sym[h].extendsType = NoRef THEN st
    ELSE AssignSuper(ObjectTypeIndex(st, st.sym[h].extendsType, context), h)

\* UCStructSymbol.index
StructIndex(st, h, context) ==
    IndexChildren(IndexExtends(st, h, context), st.sym[h].children, h)

\* The overridden-state lookup of UCStateSymbol.index
OverriddenState(st, h, context) ==
    IF st.sym[h].super = NoRef /\ st.sym[context].super # NoRef
    THEN FindSuperSymbol(st.sym, st.sym[context].super, st.sym[h].name, AnyKind, MaxDepth)
    ELSE NoRef

\* An override that takes whatever symbol the superclass has under the
\* state's name
OverrideAnyKind(st, h, overriddenState) ==
    IF overriddenState = Thrown THEN Throw(st)
    ELSE IF IsField(st.sym, overriddenState)
    THEN [IndexReference(st, overriddenState, NewRecord(st, st.sym[h].range, NoRef))
             EXCEPT !.sym = [st.sym EXCEPT ![h].overriddenState = overriddenState,
                                           ![h].super = overriddenState]]
    ELSE st

\* The override branch of UCStateSymbol.index, given the symbol found
Override(st, h, overriddenState) ==
    IF overriddenState = Thrown THEN Throw(st)
    ELSE IF IsField(st.sym, overriddenState) /\ st.sym[overriddenState].kind = "State"
    THEN [IndexReference(st, overriddenState, NewRecord(st, st.sym[h].range, NoRef))
             EXCEPT !.sym = [st.sym EXCEPT ![h].overriddenState = overriddenState,
                                           ![h].super = overriddenState]]
    ELSE st

\* The ignoreRefs loop of UCStateSymbol.index
RECURSIVE IndexIgnores(_, _, _)
IndexIgnores(st, h, j) ==
    IF st.exc \/ j > Len(st.sym[h].ignoreRefs) THEN st
    ELSE IndexIgnores(
            SetIfFound(st, st.sym[h].ignoreRefs[j],
                FindSuperSymbol(st.sym, h, st.typ[st.sym[h].ignoreRefs[j]].name,
                                AnyKind, MaxDepth)),
            h, j + 1)

\* UCStateSymbol.index
StateIndex(st, h, context) ==
    IndexIgnores(
        StructIndex(Override(st, h, OverriddenState(st, h, context)), h, context),
        h, 1)

\* The call of index on the symbol h is noted in the linker's log
Invoked(st, h) == [st EXCEPT !.log = Append(@, h)]

\* child.index(document, context) by dynamic dispatch
IndexSymbol(st, h, context) == IndexByKind(Invoked(st, h), h, context)

IndexByKind(st, h, context) ==
    CASE st.sym[h].kind = "State" -> StateIndex(st, h, context)
      [] st.sym[h].kind \in {"Class", "Struct", "Enum", "Method"} -> StructIndex(st, h, context)
      [] st.sym[h].kind = "Property" -> PropertyIndex(st, h, context)
      [] OTHER -> st

\* UCDocument.link
Link(st, cls) == IndexSymbol(st, cls, cls)

\* ------------------------------------------------------------- the workspace
\* The texts each document can hold.  x.uc declares the base class, y.uc a
\* class derived from it.
TextX1 ==
    << EnterClass("x", NoName),
       EnterFunction("foo"), ExitFunction,
       EnterState("idle", NoName, <<>>), EnterFunction("bar"), ExitFunction, ExitState,
       EnterStruct("s", NoName), ExitStruct,
       EnterStruct("y", NoName), ExitStruct,
       EnterEnum("e", <<"a", "b">>), ExitEnum,
       VarDecl(<<"q">>, "e", KindEnum),
       EnterFunction("+"), ExitFunction,
       EnterDefaultProperties, ExitDefaultProperties >>

TextX2 ==
    << EnterClass("x", NoName),
       EnterEnum("e", <<"a">>), ExitEnum,
       EnterState("other", NoName, <<>>), ExitState,
       VarDecl(<<"idle", "bar">>, "e", KindNone),
       ErrorNode,
       EnterFunction(NoName), ExitFunction,
       EnterStruct("t", NoName), ExitStruct,
       VarDecl(<<NoName>>, "e", KindNone) >>

TextY1 ==
    << EnterClass("y", "x"),
       EnterFunction("foo"), ExitFunction,
       EnterFunction("bar"), ExitFunction,
       EnterState("idle", NoName, <<"foo", "bar", "zz">>), ExitState,
       EnterStruct("s", "y"), ExitStruct,
       VarDecl(<<"p1">>, "s", KindStruct),
       VarDecl(<<"p2">>, "y", KindStruct),
       VarDecl(<<"p3">>, "y", KindClass),
       VarDecl(<<"p4">>, "s", KindClass),
       VarDecl(<<"p5">>, "core", KindPackage),
       VarDecl(<<"p6">>, "x", KindPackage),
       VarDecl(<<"p7">>, "foo", KindType),
       VarDecl(<<"p8">>, "e", KindType),
       VarDecl(<<"p9">>, "object", KindClass),
       VarClassDecl(<<"p0">>, "x"),
       VarDecl(<<"pa">>, "idle", KindEnum),
       VarDecl(<<"pb">>, "foo", KindStruct),
       VarDecl(<<"pc">>, "t", KindClass) >>

TextY2 ==
    << EnterClass("y", "x"),
       EnterState("other", NoName, <<>>), ExitState,
       EnterState("idle", "other", <<"bar">>), ExitState,
       VarDecl(<<"p1">>, "y", KindNone),
       VarDecl(<<"p2">>, "e", KindNone),
       VarDecl(<<"p3">>, "zz", KindNone),
       VarDecl(<<"p4">>, "core", KindClass),
       VarDecl(<<"p5">>, "x", KindEnum),
       VarDecl(<<"p6">>, "idle", KindType),
       VarDecl(<<"p7", "p8">>, "y", KindType),
       EnterState("q", "p1", <<"bar">>), ExitState >>

Texts == [x |-> <<TextX1, TextX2>>, y |-> <<TextY1, TextY2>>]

\* Sources with inheritance that leads back to the declaration: a class that
\* extends a class extending itself, a struct and a state that extend
\* themselves, a state that overrides what its class inherits under its name
TextX3 ==
    << EnterClass("x", "y"),
       EnterStruct("s", "s"), ExitStruct,
       EnterState("idle", "idle", <<>>), ExitState >>

TextY3 ==
    << EnterClass("y", "y"),
       EnterState("idle", NoName, <<>>), ExitState >>

CyclicTexts == [x |-> <<TextX3>>, y |-> <<TextY3>>]

\* The texts a document can be indexed from
AllTexts == [d \in Docs |-> Texts[d] \o CyclicTexts[d]]

EmptyMap == <<>>

Init ==
    /\ symbols = <<>>
    /\ types = <<>>
    /\ SymbolsTable = <<>>
    /\ IndexedReferences = EmptyMap
    /\ docClass = [d \in Docs |-> NoRef]
    /\ docNodes = [d \in Docs |-> <<>>]
    /\ docRefs = [d \in Docs |-> EmptyMap]
    /\ gen = [d \in Docs |-> 0]
    /\ last = [op |-> "init", doc |-> NoName, text |-> 0, again |-> FALSE, keys |-> {},
               threw |-> FALSE, escaped |-> FALSE, log |-> <<>>]
    /\ response = NoResponse
    /\ server = [configured |-> FALSE, documents |-> {}, subscribed |-> FALSE,
                 debounced |-> NoRequest, open |-> {}, text |-> [d \in Docs |-> 1],
                 hasBeenIndexed |-> [d \in Docs |-> FALSE], running |-> <<>>,
                 events |-> 0, analyzeDocuments |-> "OnlyActive", delayed |-> <<>>,
                 published |-> {}]

\* The loop of UCDocument.invalidate over the document's references-made map
RECURSIVE UnsetAll(_, _, _)
UnsetAll(idx, made, keys) ==
    IF keys = {} THEN idx
    ELSE LET key == CHOOSE k \in keys : TRUE
         IN UnsetAll(unsetIndexedReferences(idx, key, made[key]), made, keys \ {key})

\* An invalidation that forgets the document's map without retracting its
\* records from the global index
InvalidatedKeepsIndex(idx, made) ==
    [class |-> NoRef, nodes |-> <<>>, idx |-> idx, made |-> EmptyMap]

\* UCDocument.invalidate, as the new values of (class, nodes, global index,
\* references-made map)
Invalidated(idx, made) ==
    [class |-> NoRef, nodes |-> <<>>, idx |-> UnsetAll(idx, made, DOMAIN made),
     made |-> EmptyMap]

\* The linker's state after the parse b of a document invalidated to inv
LinkerState(b, inv, d, g) ==
    [sym |-> b.sym, typ |-> b.typ, tbl |-> b.tbl, made |-> inv.made, idx |-> inv.idx,
     nrec |-> 0, exc |-> FALSE, caught |-> 0, log |-> <<>>, d |-> d, g |-> g]

\* if (document.class) document.link(); an exception is caught and logged
LinkIfClass(st, cls) == IF cls = NoRef THEN st ELSE Link(st, cls)

\* What indexDocument leaves: the heaps, the global table, document.class,
\* document.nodes, the document's map and the global index
Indexed(b, st) ==
    [sym |-> st.sym, typ |-> st.typ, tbl |-> b.tbl, class |-> b.cls,
     nodes |-> b.nodes, made |-> st.made, idx |-> st.idx,
     threw |-> (b.exc \/ st.exc \/ st.caught > 0), escaped |-> st.exc, log |-> st.log]

\* document.parse(text) and the link, after document.invalidate()
ParseAndLink(b, inv, d, g) == Indexed(b, LinkIfClass(LinkerState(b, inv, d, g), b.cls))

IndexInvalidated(inv, d, g, text) ==
    ParseAndLink(Parse(symbols, types, SymbolsTable, inv.class, inv.nodes, d, g, text),
                 inv, d, g)

\* connection.sendDiagnostics({uri, diagnostics}): the publication is kept
\* with the handler that sent it, the analysis option in force and whether
\* the document is open in the editor
sendDiagnostics(srv, d, by) ==
    [srv EXCEPT !.published = @ \cup {[uri |-> d, by |-> by, mode |-> srv.analyzeDocuments,
                                       open |-> d \in srv.open]}]

\* indexDocument: invalidate, parse, then link when the document has a class
IndexDocumentResult(d, text) ==
    IndexInvalidated(Invalidated(IndexedReferences, docRefs[d]), d, gen[d] + 1, text)

IndexText(d, k, text) ==
    /\ gen[d] < MaxGen
    /\ response = NoResponse
    /\ \E r \in {IndexDocumentResult(d, text)} :
          /\ symbols' = r.sym
          /\ types' = r.typ
          /\ SymbolsTable' = r.tbl
          /\ IndexedReferences' = r.idx
          /\ docClass' = [docClass EXCEPT ![d] = r.class]
          /\ docNodes' = [docNodes EXCEPT ![d] = r.nodes]
          /\ docRefs' = [docRefs EXCEPT ![d] = r.made]
          /\ last' = [op |-> "indexDocument", doc |-> d, text |-> k,
                      again |-> (last.op = "indexDocument" /\ last.doc = d
                                    /\ last.text = k /\ k # 0),
                      keys |-> {}, threw |-> r.threw, escaped |-> r.escaped,
                      log |-> r.log]
    /\ gen' = [gen EXCEPT ![d] = @ + 1]
    /\ server' = sendDiagnostics(server, d, "indexDocument")
    /\ UNCHANGED response

\* indexDocument(document) with the k-th text of document d
IndexDocument(d, k) == IndexText(d, k, AllTexts[d][k])

\* document.invalidate() as an operation of its own, as the pending-document
\* handler performs it for a dirty document
Invalidate(d) ==
    /\ response = NoResponse
    /\ \E inv \in {Invalidated(IndexedReferences, docRefs[d])} :
          /\ IndexedReferences' = inv.idx
          /\ docClass' = [docClass EXCEPT ![d] = inv.class]
          /\ docNodes' = [docNodes EXCEPT ![d] = inv.nodes]
          /\ docRefs' = [docRefs EXCEPT ![d] = inv.made]
    /\ last' = [op |-> "invalidate", doc |-> d, text |-> 0, again |-> FALSE,
                keys |-> DOMAIN docRefs[d], threw |-> FALSE, escaped |-> FALSE,
                log |-> <<>>]
    /\ UNCHANGED <<symbols, types, SymbolsTable, gen, response, server>>

Next ==
    \/ \E d \in Docs : \E k \in 1..Len(Texts[d]) : IndexDocument(d, k)
    \/ \E d \in Docs : Invalidate(d)

Spec == Init /\ [][Next]_vars

\* ------------------------------------------------------------------ claims
AllKeys == DOMAIN IndexedReferences \cup UNION {DOMAIN docRefs[d] : d \in Docs}

\* The records of the global index under key whose location is in document d
LocatedIn(idx, d, key) == {r \in getIndexedReferences(idx, key) : r.location.uri = d}

\* The records document d keeps under key in its references-made map
MadeBy(d, key) == IF key \in DOMAIN docRefs[d] THEN docRefs[d][key] ELSE {}

\* C1: for every document D and every target hash, the records of the global
\* index located in D are exactly the records D keeps under that hash in its
\* own references-made map.
C1_ReferenceIndexConsistent ==
    \A d \in Docs : \A key \in AllKeys :
        LocatedIn(IndexedReferences, d, key) = MadeBy(d, key)

\* Both documents hold records under one hash after an indexing
C1_Witness ==
    /\ last.op = "indexDocument"
    /\ \E key \in AllKeys :
          /\ MadeBy("x", key) # {}
          /\ MadeBy("y", key) # {}
          /\ LocatedIn(IndexedReferences, "x", key) # {}

\* C2: invalidate(D) removes from the global index exactly the records D
\* made, leaves D's map empty and its class discarded, and changes neither
\* the records of the other documents nor their maps and classes.
C2_InvalidateStep(d) ==
    /\ \A key \in DOMAIN IndexedReferences \cup DOMAIN IndexedReferences' :
          /\ getIndexedReferences(IndexedReferences', key)
                = getIndexedReferences(IndexedReferences, key) \ MadeBy(d, key)
          /\ LocatedIn(IndexedReferences', d, key) = {}
          /\ \A e \in Docs \ {d} :
                LocatedIn(IndexedReferences', e, key) = LocatedIn(IndexedReferences, e, key)
    /\ docRefs'[d] = EmptyMap
    /\ docClass'[d] = NoRef
    /\ \A e \in Docs \ {d} : docRefs'[e] = docRefs[e] /\ docClass'[e] = docClass[e]

C2_InvalidateFrame ==
    [][\A d \in Docs : Invalidate(d) => C2_InvalidateStep(d)]_vars

\* A document that had made references was invalidated, and a hash it had
\* referenced still holds the records of the other document
C2_Witness ==
    /\ last.op = "invalidate"
    /\ \E key \in last.keys :
          \E r \in getIndexedReferences(IndexedReferences, key) : r.location.uri # last.doc

\* Handles of generation g of document d, renamed to generation 0
Norm(h, d, g) == IF Len(h) = 3 /\ h[1] = d /\ h[2] = g THEN <<d, 0, h[3]>> ELSE h

NormSymbol(rec, d, g) ==
    [rec EXCEPT !.outer = Norm(@, d, g), !.next = Norm(@, d, g),
                !.children = Norm(@, d, g), !.super = Norm(@, d, g),
                !.extendsType = Norm(@, d, g), !.type = Norm(@, d, g),
                !.overriddenState = Norm(@, d, g),
                !.ignoreRefs = [j \in DOMAIN @ |-> Norm(@[j], d, g)]]

NormType(rec, d, g) ==
    [rec EXCEPT !.reference = Norm(@, d, g), !.baseType = Norm(@, d, g),
                !.outer = Norm(@, d, g)]

NormRecord(r, d, g) ==
    [location |-> r.location, symbol |-> Norm(r.symbol, d, g), oid |-> Norm(r.oid, d, g)]

\* The objects of generation g of document d, up to the renaming
Tree(heap, d, g) == {h \in DOMAIN heap : h[1] = d /\ h[2] = g}

ResolvedTree(sym, typ, cls, d, g) ==
    [class |-> Norm(cls, d, g),
     symbols |-> {<<h[3], NormSymbol(sym[h], d, g)>> : h \in Tree(sym, d, g)},
     types |-> {<<h[3], NormType(typ[h], d, g)>> : h \in Tree(typ, d, g)}]

NormIndex(idx, d, g) ==
    UNION {{<<key, NormRecord(r, d, g)>> : r \in idx[key]} : key \in DOMAIN idx}

C3_SameResult(d) ==
    /\ ResolvedTree(symbols', types', docClass'[d], d, gen'[d])
          = ResolvedTree(symbols, types, docClass[d], d, gen[d])
    /\ docNodes'[d] = docNodes[d]
    /\ NormIndex(IndexedReferences', d, gen'[d]) = NormIndex(IndexedReferences, d, gen[d])

\* C3: indexing a document with the text it was indexed with in the step
\* before yields the same resolved symbol tree, the same diagnostics and the
\* same reference records in the global index.
C3_ReindexIdempotent ==
    [][\A d \in Docs : \A k \in 1..Len(Texts[d]) :
          (last.op = "indexDocument" /\ last.doc = d /\ last.text = k /\ IndexDocument(d, k))
              => C3_SameResult(d)]_vars

\* The last step indexed again the text of the step before it, a text that
\* declares a class and makes references
C3_Witness ==
    /\ last.op = "indexDocument"
    /\ last.again
    /\ docClass[last.doc] # NoRef
    /\ DOMAIN docRefs[last.doc] # {}

\* The names the texts declare or refer to
Names == {"x", "y", "foo", "bar", "idle", "other", "s", "e", "a", "q", "zz", "core"}

\* The kind filters a lookup is made with
Filters == {AnyKind, {"State"}, {"Struct", "Enum"}, {"Function"}}

\* The symbols of the tree document d holds
LiveSymbols(d) == IF docClass[d] = NoRef THEN {} ELSE Tree(symbols, d, gen[d])

\* The children of struct s
RECURSIVE ChainMembers(_)
ChainMembers(c) == IF c = NoRef THEN {} ELSE {c} \cup ChainMembers(symbols[c].next)

Members(s) == ChainMembers(symbols[s].children)

\* The children of s named id that pass the filter
Matches(s, id, kind) ==
    {c \in Members(s) : /\ symbols[c].name = id
                        /\ (kind = AnyKind \/ GetTypeFlags(symbols[c]) \cap kind # {})}

\* s and its ancestors by super, nearest first
RECURSIVE SuperChain(_, _)
SuperChain(s, fuel) ==
    IF s \notin DOMAIN symbols \/ fuel = 0 THEN <<>>
    ELSE <<s>> \o SuperChain(symbols[s].super, fuel - 1)

\* The scopes of the chain that have a match
Matching(chain, id, kind) == {j \in DOMAIN chain : Matches(chain[j], id, kind) # {}}

\* The lookup result is a match of the nearest scope of the chain that has
\* one, and undefined when no scope has one
NearestMatch(found, chain, id, kind) ==
    IF Matching(chain, id, kind) = {} THEN found = NoRef
    ELSE \E j \in Matching(chain, id, kind) :
            /\ \A i \in Matching(chain, id, kind) : j <= i
            /\ found \in Matches(chain[j], id, kind)

\* The structs whose findSuperSymbol is UCStructSymbol's own
PlainStructs(d) ==
    {s \in LiveSymbols(d) : symbols[s].kind \in {"Class", "Struct", "Enum", "Method"}}

\* C4: findSuperSymbol(id, kind) on a struct S returns S's own child named id
\* that passes the filter whenever S has one, whatever its ancestors declare;
\* otherwise the match of the nearest ancestor of the super chain; otherwise
\* undefined.
C4_FindSuperSymbol ==
    \A d \in Docs : \A s \in PlainStructs(d) : \A id \in Names : \A kind \in Filters :
        NearestMatch(FindSuperSymbol(symbols, s, id, kind, MaxDepth),
                     SuperChain(s, MaxDepth), id, kind)

\* A struct and its ancestor both declare a name and the lookup returns the
\* struct's own; another name is found in the ancestor only
C4_Witness ==
    \E s \in PlainStructs("y") : \E id, id2 \in Names :
        /\ symbols[s].super \in DOMAIN symbols
        /\ Matches(s, id, AnyKind) # {}
        /\ Matches(symbols[s].super, id, AnyKind) # {}
        /\ FindSuperSymbol(symbols, s, id, AnyKind, MaxDepth) \in Matches(s, id, AnyKind)
        /\ Matches(s, id2, AnyKind) = {}
        /\ FindSuperSymbol(symbols, s, id2, AnyKind, MaxDepth)
              \in Matches(symbols[s].super, id2, AnyKind)

IsState(h) == h \in DOMAIN symbols /\ symbols[h].kind = "State"

\* The states declared in the class of document d
ClassStates(d) ==
    IF docClass[d] = NoRef THEN {} ELSE {s \in Members(docClass[d]) : IsState(s)}

\* What the hierarchy of the superclass of d's class has under the name of s
Inherited(d, s) ==
    FindSuperSymbol(symbols, symbols[docClass[d]].super, symbols[s].name, AnyKind, MaxDepth)

\* C5: in a class with a superclass, a state declared without an extends
\* clause whose name is found as a state in the superclass hierarchy has that
\* state as super, and the document holds a reference record to it at the
\* overriding state's identifier range; when the name found is not a state,
\* super stays unset.
C5_ImplicitOverride ==
    \A d \in Docs : \A s \in ClassStates(d) :
        (symbols[docClass[d]].super # NoRef /\ symbols[s].extendsType = NoRef) =>
            IF IsState(Inherited(d, s))
            THEN /\ symbols[s].super = Inherited(d, s)
                 /\ \E r \in MadeBy(d, GetHash(symbols, Inherited(d, s))) :
                       /\ r.location = [uri |-> d, range |-> symbols[s].range]
                       /\ r \in getIndexedReferences(IndexedReferences,
                                                     GetHash(symbols, Inherited(d, s)))
            ELSE symbols[s].super = NoRef

\* One state overrides the state of the superclass; in another tree the
\* superclass has a variable of the state's name
C5_Witness ==
    /\ \E s \in ClassStates("y") :
          /\ symbols[s].extendsType = NoRef
          /\ IsState(symbols[s].super)
          /\ symbols[s].super[1] = "x"
    /\ last.doc = "y"

C5_WitnessNotAState ==
    \E s \in ClassStates("y") :
        /\ symbols[s].extendsType = NoRef
        /\ symbols[docClass["y"]].super # NoRef
        /\ Inherited("y", s) \in DOMAIN symbols
        /\ ~IsState(Inherited("y", s))
        /\ symbols[s].super = NoRef

\* C6: a state with an explicit extends clause that resolves has, after
\* indexing, the resolved extends target as super, even when the superclass
\* hierarchy has a state of the same name.
C6_ExplicitExtendsWins ==
    \A d \in Docs : \A s \in ClassStates(d) :
        (/\ symbols[s].extendsType # NoRef
         /\ types[symbols[s].extendsType].reference # NoRef)
            => symbols[s].super = types[symbols[s].extendsType].reference

\* The lookup through the state and its super states only
RECURSIVE StateChainFind(_, _, _)
StateChainFind(s, id, fuel) ==
    IF ~IsState(s) \/ fuel = 0 THEN NoRef
    ELSE IF Matches(s, id, AnyKind) # {} THEN GetSymbol(symbols, s, id, AnyKind)
    ELSE StateChainFind(symbols[s].super, id, fuel - 1)

\* C7: findSuperSymbol on a state searches the state's own children, then
\* its super-state chain, and only when nothing is found there the enclosing
\* class and that class's super chain.
C7_StateLookupOrder ==
    \A d \in Docs : \A s \in ClassStates(d) : \A id \in Names :
        FindSuperSymbol(symbols, s, id, AnyKind, MaxDepth) =
            IF StateChainFind(s, id, MaxDepth) # NoRef
            THEN StateChainFind(s, id, MaxDepth)
            ELSE FindSuperSymbol(symbols, symbols[s].outer, id, AnyKind, MaxDepth)

\* The type references of the tree of document d, each with the context it
\* is indexed in: the type of a property with the struct that declares the
\* property, an extends clause with the class of the document
TypeUses(d) ==
    {<<symbols[p].type, symbols[p].outer>> :
        p \in {q \in LiveSymbols(d) : symbols[q].kind = "Property" /\ symbols[q].type # NoRef}}
    \cup {<<symbols[s].extendsType, docClass[d]>> :
        s \in {q \in LiveSymbols(d) : symbols[q].extendsType # NoRef}}

Hinted(d, hints) == {u \in TypeUses(d) : types[u[1]].validTypeKind \in hints}

\* The document the last step indexed, whose links were made against the
\* tables and trees of this state
JustIndexed == IF last.op = "indexDocument" THEN {last.doc} ELSE {}

GlobalEntry(id) == IF id \in DOMAIN SymbolsTable THEN SymbolsTable[id] ELSE NoRef

\* C8: a reference hinted Enum, Struct or State is resolved through the
\* context's chain only and never from the global table; a reference hinted
\* Class or Interface is resolved from the global table only; a reference
\* hinted Package is resolved from the packages table only.
C8_NoTableCrossing ==
    \A d \in JustIndexed :
        /\ \A u \in Hinted(d, {KindEnum, KindStruct, KindState}) :
              NearestMatch(types[u[1]].reference, SuperChain(u[2], MaxDepth),
                           types[u[1]].name, AnyKind)
        /\ \A u \in Hinted(d, {KindClass, KindInterface}) :
              types[u[1]].reference = GlobalEntry(types[u[1]].name)
        /\ \A u \in Hinted(d, {KindPackage}) :
              types[u[1]].reference =
                 IF types[u[1]].name \in PackagesTable
                 THEN <<"package", types[u[1]].name>> ELSE NoRef

\* A Struct-hinted reference named like a global class resolved to a struct
\* of the chain, a Class-hinted reference named like a member of the chain
\* stayed unresolved, a Package-hinted reference named like a global class
\* stayed unresolved and another resolved to a package
C8_Witness ==
    \E d \in JustIndexed :
        /\ \E u \in Hinted(d, {KindStruct}) :
              /\ GlobalEntry(types[u[1]].name) # NoRef
              /\ types[u[1]].reference \in DOMAIN symbols
              /\ symbols[types[u[1]].reference].kind = "Struct"
        /\ \E u \in Hinted(d, {KindClass}) :
              /\ Matching(SuperChain(u[2], MaxDepth), types[u[1]].name, AnyKind) # {}
              /\ types[u[1]].reference = NoRef
        /\ \E u \in Hinted(d, {KindClass}) : types[u[1]].reference \in DOMAIN symbols
        /\ \E u \in Hinted(d, {KindPackage}) :
              /\ GlobalEntry(types[u[1]].name) # NoRef
              /\ types[u[1]].reference = NoRef
        /\ \E u \in Hinted(d, {KindPackage}) : IsPackage(types[u[1]].reference)

\* C9: a reference with an unspecified hint resolves to the global table's
\* entry of its name when there is one, to the match of the context's chain
\* when there is none, and stays unresolved only when both lookups fail.
C9_UnspecifiedHint ==
    \A d \in JustIndexed : \A u \in Hinted(d, {KindNone}) :
        IF GlobalEntry(types[u[1]].name) # NoRef
        THEN types[u[1]].reference = GlobalEntry(types[u[1]].name)
        ELSE NearestMatch(types[u[1]].reference, SuperChain(u[2], MaxDepth),
                          types[u[1]].name, AnyKind)

\* One unhinted reference took the global class although the chain has a
\* struct of the name, one found its target in the chain, one stayed
\* unresolved
C9_Witness ==
    \E d \in JustIndexed :
        /\ \E u \in Hinted(d, {KindNone}) :
              /\ types[u[1]].reference = GlobalEntry(types[u[1]].name)
              /\ types[u[1]].reference # NoRef
              /\ Matching(SuperChain(u[2], MaxDepth), types[u[1]].name, AnyKind) # {}
        /\ \E u \in Hinted(d, {KindNone}) :
              /\ GlobalEntry(types[u[1]].name) = NoRef
              /\ types[u[1]].reference \in DOMAIN symbols
        /\ \E u \in Hinted(d, {KindNone}) :
              /\ types[u[1]].name \in Names
              /\ types[u[1]].reference = NoRef

\* The symbol can be the type of a declaration
UsableAsType(h) == h \in DOMAIN symbols /\ symbols[h].kind \in {"Class", "Struct", "Enum"}

\* What the lookup of a Type-hinted reference u finds
LookedUp(u) ==
    IF GlobalEntry(types[u[1]].name) # NoRef
    THEN GlobalEntry(types[u[1]].name)
    ELSE FindSuperSymbol(symbols, u[2], types[u[1]].name, AnyKind, MaxDepth)

\* The records of the global index made for type reference t
RecordsOf(t) ==
    UNION {{r \in IndexedReferences[key] : r.symbol = t} : key \in DOMAIN IndexedReferences}

\* C10: a reference with the generic Type hint is resolved only to a symbol
\* usable as a type; when the looked-up symbol is not one, the reference
\* stays unresolved and no reference record is registered for it.
C10_TypeHint ==
    \A d \in JustIndexed : \A u \in Hinted(d, {KindType}) :
        IF UsableAsType(LookedUp(u))
        THEN types[u[1]].reference = LookedUp(u)
        ELSE types[u[1]].reference = NoRef /\ RecordsOf(u[1]) = {}

\* One Type-hinted reference found a function or a state and stayed
\* unresolved, another found an enum or a class and resolved with a record
C10_Witness ==
    \E d \in JustIndexed :
        /\ \E u \in Hinted(d, {KindType}) :
              /\ LookedUp(u) \in DOMAIN symbols
              /\ ~UsableAsType(LookedUp(u))
              /\ types[u[1]].reference = NoRef
        /\ \E u \in Hinted(d, {KindType}) :
              /\ UsableAsType(types[u[1]].reference)
              /\ RecordsOf(u[1]) # {}

\* The type references created by the current parse of document d
LiveTypes(d) == IF docClass[d] = NoRef THEN {} ELSE Tree(types, d, gen[d])

\* The properties of document d whose declared type is t
DeclaredWith(d, t) ==
    {p \in LiveSymbols(d) : symbols[p].kind = "Property" /\ symbols[p].type = t}

\* The records stored under the key of symbol h for type reference t
RecordsUnder(h, t) ==
    {r \in getIndexedReferences(IndexedReferences, GetHash(symbols, h)) : r.symbol = t}

\* C11: every resolved type reference of an indexed document has exactly one
\* reference record, stored under the hash of its target and located at the
\* reference's range, however many variables of one declaration share it;
\* an unresolved type reference has no record.
C11_OneRecordPerReference ==
    \A d \in Docs : \A t \in LiveTypes(d) :
        IF types[t].reference = NoRef
        THEN RecordsOf(t) = {}
        ELSE /\ Cardinality(RecordsOf(t)) = 1
             /\ RecordsOf(t) = RecordsUnder(types[t].reference, t)
             /\ \A r \in RecordsOf(t) :
                   r.location = [uri |-> d, range |-> types[t].range]

\* A type reference shared by two variables of one declaration is resolved
\* and has its single record, while another reference of the document is
\* unresolved
C11_Witness ==
    \E d \in Docs :
        /\ \E t \in LiveTypes(d) :
              /\ Cardinality(DeclaredWith(d, t)) >= 2
              /\ types[t].reference # NoRef
              /\ Cardinality(RecordsOf(t)) = 1
        /\ \E t \in LiveTypes(d) : types[t].reference = NoRef

\* The name of the implicit count member of an enum
NAME_ENUMCOUNT == "EnumCount"

\* The enums of the current tree of document d
LiveEnums(d) == {h \in LiveSymbols(d) : symbols[h].kind = "Enum"}

\* The declared members of enum h; the range of a member holds its place in
\* the declaration
DeclaredMembers(h) ==
    {m \in Members(h) : symbols[m].kind = "EnumMember" /\ symbols[m].name # NAME_ENUMCOUNT}

\* C12: the members of an enum declared with n members have the values
\* 0..n-1 in declaration order, and the enum has an implicit EnumCount
\* member whose value is n.
C12_EnumNumbering ==
    \A d \in Docs : \A h \in LiveEnums(d) :
        /\ \A m \in DeclaredMembers(h) : symbols[m].value = symbols[m].range[2] - 1
        /\ {symbols[m].value : m \in DeclaredMembers(h)}
              = 0 .. (Cardinality(DeclaredMembers(h)) - 1)
        /\ GetSymbol(symbols, h, NAME_ENUMCOUNT, AnyKind) # NoRef
        /\ \A m \in Members(h) :
              symbols[m].name = NAME_ENUMCOUNT
                 => symbols[m].value = Cardinality(DeclaredMembers(h))

\* The part of C12 the builder does: the declared members are numbered from
\* 0 in declaration order
C12_DeclaredNumbering ==
    \A d \in Docs : \A h \in LiveEnums(d) :
        /\ \A m \in DeclaredMembers(h) : symbols[m].value = symbols[m].range[2] - 1
        /\ {symbols[m].value : m \in DeclaredMembers(h)}
              = 0 .. (Cardinality(DeclaredMembers(h)) - 1)

\* ------------------------------------------------------- the query surface
\* A handler that never waits for the running one to return
NeverWaits == TRUE

\* The server runs one handler at a time: a request, a notification or a
\* timer is dispatched when the handler before it has returned (neither the
\* pending-document handler nor indexDocument awaits anything)
StackIdle == server.running = <<>>

\* DEFAULT_RANGE, the range of a symbol that no source file declares
DEFAULT_RANGE == <<0, 0>>

\* With queries, the documents are indexed at most this many times in total
MaxQueryGen == 2

\* The spelling of the identifiers and of the names a client may propose
Spelling ==
    [n \in {"x", "y", "s", "e", "a", "b", "q", "t"} |-> <<n>>]
    @@ ("p1" :> <<"p", "1">>) @@ ("p2" :> <<"p", "2">>) @@ ("p3" :> <<"p", "3">>)
    @@ ("p4" :> <<"p", "4">>) @@ ("p5" :> <<"p", "5">>) @@ ("p6" :> <<"p", "6">>)
    @@ ("p7" :> <<"p", "7">>) @@ ("p8" :> <<"p", "8">>) @@ ("p9" :> <<"p", "9">>)
    @@ ("pa" :> <<"p", "a">>) @@ ("pb" :> <<"p", "b">>) @@ ("pc" :> <<"p", "c">>)
    @@ ("p0" :> <<"p", "0">>) @@ ("class" :> <<"c", "l", "a", "s", "s">>)
    @@ ("foo" :> <<"f", "o", "o">>) @@ ("bar" :> <<"b", "a", "r">>)
    @@ ("idle" :> <<"i", "d", "l", "e">>) @@ ("other" :> <<"o", "t", "h", "e", "r">>)
    @@ ("zz" :> <<"z", "z">>) @@ ("core" :> <<"c", "o", "r", "e">>)
    @@ ("object" :> <<"o", "b", "j", "e", "c", "t">>)
    @@ ("defaultproperties" :> <<"d", "e", "f", "a", "u", "l", "t", "p", "r", "o", "p",
                                 "e", "r", "t", "i", "e", "s">>)
    @@ ("+" :> <<"+">>) @@ ("hp" :> <<"h", "p">>) @@ ("9hp" :> <<"9", "h", "p">>)
    @@ ("" :> <<>>)

Letters ==
    {"a", "b", "c", "d", "e", "f", "g", "h", "i", "j", "k", "l", "m", "n", "o", "p", "q",
     "r", "s", "t", "u", "v", "w", "x", "y", "z", "A", "B", "C", "D", "E", "F", "G", "H",
     "I", "J", "K", "L", "M", "N", "O", "P", "Q", "R", "S", "T", "U", "V", "W", "X", "Y",
     "Z"}

Digits == {"0", "1", "2", "3", "4", "5", "6", "7", "8", "9"}

\* VALID_ID_REGEXP.test(name): /^([a-zA-Z_][a-zA-Z_0-9]*)$/
VALID_ID_REGEXP(name) ==
    /\ Len(Spelling[name]) >= 1
    /\ Spelling[name][1] \in Letters \cup {"_"}
    /\ \A i \in 2..Len(Spelling[name]) : Spelling[name][i] \in Letters \cup Digits \cup {"_"}

\* The names a rename request proposes
NewNames == {"hp", "9hp"}

\* The class symbol connection.onDidChangeConfiguration creates for the
\* intrinsic symbol "Core.Object" of the settings
IntrinsicObject == <<"intrinsic", 0, 0>>

\* The values of the setting unrealscript.analyzeDocuments
EAnalyzeOption == {"None", "OnlyActive", "All"}

\* connection.onDidChangeConfiguration: the settings are applied, the
\* intrinsic class is created with the default range, put in its package and
\* added to the global table, and isIndexReady$ emits true, which subscribes
\* the pending-document pipeline to pendingTextDocuments$
ChangeConfiguration(analyzeDocuments) ==
    /\ response = NoResponse
    /\ StackIdle
    /\ IntrinsicObject \notin DOMAIN symbols
    /\ symbols' = symbols @@ (IntrinsicObject :>
                     [NewSymbol("Class", "object", DEFAULT_RANGE)
                         EXCEPT !.outer = <<"package", "core">>])
    /\ SymbolsTable' = [n \in DOMAIN SymbolsTable \cup {"object"} |->
                           IF n = "object" THEN IntrinsicObject ELSE SymbolsTable[n]]
    /\ server' = [server EXCEPT !.configured = TRUE, !.subscribed = TRUE,
                                !.analyzeDocuments = analyzeDocuments]
    /\ UNCHANGED <<types, IndexedReferences, docClass, docNodes, docRefs, gen, last,
                   response>>

\* A position query that answers an unresolved type reference with the scope
\* the reference stands in
ScopeAtPos(t, pos) ==
    IF t = NoRef \/ types[t].range # pos THEN NoRef
    ELSE OrElse(types[t].reference, types[t].outer)

\* UCObjectTypeSymbol.getSymbolAtPos followed by getReference: a resolved
\* type reference at the position stands for its target
RECURSIVE ReferenceAtPos(_, _)
ReferenceAtPos(t, pos) ==
    IF t = NoRef THEN NoRef
    ELSE IF types[t].reference # NoRef /\ types[t].range = pos THEN types[t].reference
    ELSE ReferenceAtPos(types[t].baseType, pos)

\* UCStateSymbol.getContainedSymbolAtPos: the ignoreRefs come first
RECURSIVE IgnoreRefAtPos(_, _, _)
IgnoreRefAtPos(refs, j, pos) ==
    IF j > Len(refs) THEN NoRef
    ELSE OrElse(ReferenceAtPos(refs[j], pos), IgnoreRefAtPos(refs, j + 1, pos))

\* getSymbolAtPos of a field symbol, and getChildSymbolAtPos over a children
\* chain; the symbol found is replaced by what it refers to
RECURSIVE DefinitionAtPos(_, _)
RECURSIVE ChildDefinitionAtPos(_, _)
DefinitionAtPos(h, pos) ==
    IF symbols[h].range = pos THEN h
    ELSE OrElse(IgnoreRefAtPos(symbols[h].ignoreRefs, 1, pos),
         OrElse(ReferenceAtPos(symbols[h].extendsType, pos),
         OrElse(ReferenceAtPos(symbols[h].type, pos),
                ChildDefinitionAtPos(symbols[h].children, pos))))

ChildDefinitionAtPos(c, pos) ==
    IF c = NoRef THEN NoRef
    ELSE OrElse(DefinitionAtPos(c, pos), ChildDefinitionAtPos(symbols[c].next, pos))

\* getSymbolDefinition(uri, position): document.getSymbolAtPos(position) and
\* then the symbol's reference
getSymbolDefinition(d, pos) ==
    IF docClass[d] = NoRef THEN NoRef ELSE DefinitionAtPos(docClass[d], pos)

\* symbol.getTypeFlags() of what a definition query can return
SymbolTypeFlags(h) == IF IsPackage(h) THEN {"Package"} ELSE GetTypeFlags(symbols[h])

\* symbol.getUri(): the document that declares the symbol (NoName for none)
GetUri(h) == IF h \in DOMAIN symbols /\ h[1] \in Docs THEN h[1] ELSE NoName

\* What a handler hands back when it returns undefined, and the error of a
\* handler that returned
Undefined == [undefined |-> TRUE]
NoError == [code |-> "none", message |-> ""]

\* throw new ResponseError(code, message)
ResponseError(code, message) ==
    [error |-> [code |-> code, message |-> message], result |-> Undefined]

\* The value a handler returns
Returned(value) == [error |-> NoError, result |-> value]

\* A prepare-rename that lets every field symbol through
PrepareAnyField(symbol) ==
    IF symbol = NoRef \/ ~IsField(symbols, symbol)
    THEN ResponseError("InvalidRequest", "You cannot rename this element!")
    ELSE Returned([range |-> symbols[symbol].range])

\* connection.onPrepareRename, after the definition lookup
PrepareRenameResult(symbol) ==
    IF symbol = NoRef
    THEN ResponseError("InvalidRequest", "You cannot rename this element!")
    ELSE IF SymbolTypeFlags(symbol) = {}
    THEN ResponseError("InvalidRequest", "You cannot rename this element!")
    ELSE IF ~IsField(symbols, symbol)
    THEN ResponseError("InvalidRequest", "You cannot rename this element!")
    ELSE IF symbols[symbol].kind = "Class"
    THEN ResponseError("InvalidRequest", "You cannot rename a class!")
    ELSE IF symbols[symbol].range = DEFAULT_RANGE
    THEN ResponseError("InvalidRequest", "You cannot rename this element!")
    ELSE IF ~VALID_ID_REGEXP(symbols[symbol].name)
    THEN ResponseError("InvalidParams", "You cannot rename this element!")
    ELSE Returned([range |-> symbols[symbol].range])

\* TextEdit.replace(range, newName)
TextEdit(range, newText) == [range |-> range, newText |-> newText]

\* The edits pushed for the records refs of one file
RECURSIVE Edits(_, _)
Edits(refs, newName) ==
    IF refs = {} THEN <<>>
    ELSE LET ref == CHOOSE r \in refs : TRUE
         IN <<TextEdit(ref.location.range, newName)>> \o Edits(refs \ {ref}, newName)

\* Edits for the records of the first file only
ChangesOfOneFile(refs, newName) ==
    IF refs = {} THEN <<>>
    ELSE LET uri == CHOOSE u \in {r.location.uri : r \in refs} : TRUE
         IN (uri :> Edits({r \in refs : r.location.uri = uri}, newName))

\* The changes of connection.onRenameRequest: the edits grouped by file
Changes(refs, newName) ==
    [uri \in {r.location.uri : r \in refs} |->
        Edits({r \in refs : r.location.uri = uri}, newName)]

\* A rename that does not look at the new name
RenameUnchecked(d, pos, newName) ==
    IF getSymbolDefinition(d, pos) = NoRef
    THEN Returned(Undefined)
    ELSE IF GetHash(symbols, getSymbolDefinition(d, pos)) \notin DOMAIN IndexedReferences
    THEN Returned(Undefined)
    ELSE Returned([changes |->
            Changes(IndexedReferences[GetHash(symbols, getSymbolDefinition(d, pos))],
                    newName)])

\* connection.onRenameRequest
RenameResult(d, pos, newName) ==
    IF ~VALID_ID_REGEXP(newName)
    THEN ResponseError("InvalidParams", "Invalid identifier!")
    ELSE IF getSymbolDefinition(d, pos) = NoRef
    THEN Returned(Undefined)
    ELSE IF GetHash(symbols, getSymbolDefinition(d, pos)) \notin DOMAIN IndexedReferences
    THEN Returned(Undefined)
    ELSE Returned([changes |->
            Changes(IndexedReferences[GetHash(symbols, getSymbolDefinition(d, pos))],
                    newName)])

\* connection.onDefinition, after the definition lookup
DefinitionResult(symbol) ==
    IF symbol = NoRef \/ GetUri(symbol) = NoName
    THEN Returned(Undefined)
    ELSE Returned([uri |-> GetUri(symbol), range |-> symbols[symbol].range])

\* The positions a request can name: every range of the current parse of
\* the document, and a position nothing is declared at
Positions(d) ==
    {symbols[h].range : h \in Tree(symbols, d, gen[d])}
    \cup {types[t].range : t \in Tree(types, d, gen[d])}
    \cup {DEFAULT_RANGE}

RECURSIVE Sum(_, _)
Sum(f, S) == IF S = {} THEN 0 ELSE LET d == CHOOSE e \in S : TRUE IN f[d] + Sum(f, S \ {d})

\* The request with the symbol the handler found and its reply
Answer(method, d, pos, newName, symbol, reply) ==
    /\ response = NoResponse
    /\ StackIdle
    /\ response' = [method |-> method, uri |-> d, position |-> pos, newName |-> newName,
                    symbol |-> symbol, error |-> reply.error, result |-> reply.result]
    /\ UNCHANGED <<symbols, types, SymbolsTable, IndexedReferences, docClass, docNodes,
                   docRefs, gen, last, server>>

PrepareRename(d, pos) ==
    Answer("prepareRename", d, pos, NoName, getSymbolDefinition(d, pos),
           PrepareRenameResult(getSymbolDefinition(d, pos)))

RenameRequest(d, pos, newName) ==
    Answer("rename", d, pos, newName, getSymbolDefinition(d, pos),
           RenameResult(d, pos, newName))

Definition(d, pos) ==
    Answer("definition", d, pos, NoName, getSymbolDefinition(d, pos),
           DefinitionResult(getSymbolDefinition(d, pos)))

\* The connection sends the reply of the handler that returned
SendResponse ==
    /\ response # NoResponse
    /\ response' = NoResponse
    /\ UNCHANGED <<symbols, types, SymbolsTable, IndexedReferences, docClass, docNodes,
                   docRefs, gen, last, server>>

NextQuery ==
    \/ \E d \in Docs : \E k \in 1..Len(Texts[d]) :
          Sum(gen, Docs) < MaxQueryGen /\ IndexDocument(d, k)
    \/ \E d \in Docs : Invalidate(d)
    \/ \E analyzeDocuments \in {server.analyzeDocuments} :
          ChangeConfiguration(analyzeDocuments)
    \/ \E d \in Docs : \E pos \in Positions(d) : PrepareRename(d, pos)
    \/ \E d \in Docs : \E pos \in Positions(d) : \E newName \in NewNames :
          RenameRequest(d, pos, newName)
    \/ \E d \in Docs : \E pos \in Positions(d) : Definition(d, pos)
    \/ SendResponse

SpecQuery == Init /\ [][NextQuery]_vars

\* The symbol a request found can be renamed: it is a field symbol with a
\* defined type, not a class, declared in a source file, named by an
\* identifier
Renamable(symbol) ==
    /\ symbol \in DOMAIN symbols
    /\ GetTypeFlags(symbols[symbol]) # {}
    /\ symbols[symbol].kind # "Class"
    /\ symbols[symbol].range # DEFAULT_RANGE
    /\ VALID_ID_REGEXP(symbols[symbol].name)

\* C13: prepare-rename is rejected, with no range, when the position holds
\* no symbol, a symbol without a defined type, a non-field symbol, a class, a
\* symbol with the default range or a symbol whose name is not an
\* identifier; otherwise it returns the identifier range of the symbol.
C13_PrepareRename ==
    response.method = "prepareRename" =>
        IF Renamable(response.symbol)
        THEN /\ response.error = NoError
             /\ response.result = [range |-> symbols[response.symbol].range]
        ELSE /\ response.error # NoError
             /\ response.result = Undefined

\* Prepare-rename on the operator function "+" was rejected
C13_Witness ==
    /\ response.method = "prepareRename"
    /\ response.symbol \in DOMAIN symbols
    /\ symbols[response.symbol].kind = "Method"
    /\ symbols[response.symbol].name = "+"
    /\ response.error = [code |-> "InvalidParams", message |-> "You cannot rename this element!"]
    /\ response.result = Undefined

\* Prepare-rename found no symbol, a defaults block, a package, a class of a
\* document, the intrinsic class, and a renamable symbol reached through a
\* reference in another document
C13_WitnessNoSymbol ==
    response.method = "prepareRename" /\ response.symbol = NoRef /\ response.error # NoError

C13_WitnessNoType ==
    /\ response.method = "prepareRename"
    /\ response.symbol \in DOMAIN symbols
    /\ symbols[response.symbol].kind = "DefaultPropertiesBlock"
    /\ response.error # NoError

C13_WitnessPackage ==
    response.method = "prepareRename" /\ IsPackage(response.symbol) /\ response.error # NoError

C13_WitnessClass ==
    /\ response.method = "prepareRename"
    /\ response.symbol \in DOMAIN symbols
    /\ symbols[response.symbol].range # DEFAULT_RANGE
    /\ response.error = [code |-> "InvalidRequest", message |-> "You cannot rename a class!"]

C13_WitnessIntrinsic ==
    /\ response.method = "prepareRename"
    /\ response.symbol = IntrinsicObject
    /\ response.error # NoError

C13_WitnessRange ==
    /\ response.method = "prepareRename"
    /\ response.symbol \in DOMAIN symbols
    /\ response.symbol[1] # response.uri
    /\ response.result = [range |-> symbols[response.symbol].range]

\* The symbol is one prepare-rename refuses: a class, a symbol with the
\* default range, or a symbol whose name is not an identifier
NotRenamable(symbol) ==
    /\ symbol \in DOMAIN symbols
    /\ \/ symbols[symbol].kind = "Class"
       \/ symbols[symbol].range = DEFAULT_RANGE
       \/ ~VALID_ID_REGEXP(symbols[symbol].name)

\* C14: a rename request on a class symbol, a symbol with the default range
\* or a symbol with an operator name is rejected with an error and produces
\* no workspace edit.
C14_RenameRejected ==
    (response.method = "rename" /\ NotRenamable(response.symbol)) =>
        /\ response.error # NoError
        /\ response.result = Undefined

\* A rename request with a valid new name on a class returned a workspace
\* edit
C14_ClassRenamed ==
    /\ response.method = "rename"
    /\ response.symbol \in DOMAIN symbols
    /\ symbols[response.symbol].kind = "Class"
    /\ response.error = NoError
    /\ response.result # Undefined

\* The reference records stored under the hash of the symbol of the request
RecordsOfRequest ==
    getIndexedReferences(IndexedReferences, GetHash(symbols, response.symbol))

\* The rename request being answered returned a workspace edit
RenameSucceeded ==
    /\ response.method = "rename"
    /\ response.error = NoError
    /\ response.result # Undefined

\* C15: the workspace edit of a successful rename of symbol S to newName has,
\* for every file and range, as many edits as there are reference records
\* under S's hash at that range of that file, each replacing by newName; a
\* file without a recorded reference to S gets no edit.
C15_RenameEdits ==
    /\ RenameSucceeded =>
          /\ DOMAIN response.result.changes = {r.location.uri : r \in RecordsOfRequest}
          /\ \A uri \in DOMAIN response.result.changes :
                /\ \A i \in DOMAIN response.result.changes[uri] :
                      response.result.changes[uri][i].newText = response.newName
                /\ \A range \in {response.result.changes[uri][i].range :
                                    i \in DOMAIN response.result.changes[uri]}
                          \cup {r.location.range : r \in RecordsOfRequest} :
                      Cardinality({i \in DOMAIN response.result.changes[uri] :
                                      response.result.changes[uri][i].range = range})
                      = Cardinality({r \in RecordsOfRequest :
                                        r.location.uri = uri /\ r.location.range = range})
    /\ (/\ response.method = "rename"
        /\ response.error = NoError
        /\ response.symbol # NoRef
        /\ RecordsOfRequest # {}) => response.result # Undefined

\* A rename returned edits in both documents
C15_Witness ==
    /\ RenameSucceeded
    /\ DOMAIN response.result.changes = Docs

\* A rename returned two edits in one file
C15_WitnessTwoEdits ==
    /\ RenameSucceeded
    /\ \E uri \in DOMAIN response.result.changes : Len(response.result.changes[uri]) >= 2

\* A rename of a symbol declared in one document returned edits in the other
\* document only
C15_WitnessOtherFile ==
    /\ RenameSucceeded
    /\ response.symbol \in DOMAIN symbols
    /\ DOMAIN response.result.changes = Docs \ {response.symbol[1]}

\* The documents whose class is the resolved superclass of the class of d
BaseOf(d) ==
    {b \in Docs \ {d} : /\ docClass[d] # NoRef
                        /\ docClass[b] # NoRef
                        /\ symbols[docClass[d]].super = docClass[b]}

\* The scope does not extend a symbol that is no struct (a lookup through
\* such a super link throws)
ExtendsAStruct(o) ==
    (o \in DOMAIN symbols /\ symbols[o].super # NoRef) => IsStruct(symbols, symbols[o].super)

\* The identifiers of the current parse of d at the position: type
\* references hinted as a nested type or not hinted at all, and ignored names,
\* of a scope whose super link can be searched
IdentifiersAt(d, pos) ==
    {t \in Tree(types, d, gen[d]) :
        /\ types[t].range = pos
        /\ types[t].validTypeKind \in {KindEnum, KindStruct, KindState, KindNone}
        /\ ExtendsAStruct(types[t].outer)}

\* The name is declared by the class of b and by nothing in document d, and
\* is not the name of a class
OnlyInBase(n, d, b) ==
    /\ GetSymbol(symbols, docClass[b], n, AnyKind) # NoRef
    /\ \A h \in Tree(symbols, d, gen[d]) : symbols[h].name # n
    /\ n \notin DOMAIN SymbolsTable

\* C16: once a base class document and then a document whose class extends
\* it are indexed, the definition query at an identifier of the derived
\* document that names a member declared only in the base class returns the
\* base class's member, located in the base document, and the index holds,
\* under that member's hash, a record located at the identifier.
C16_InheritedMember ==
    response.method = "definition" =>
        \A b \in BaseOf(response.uri) : \A t \in IdentifiersAt(response.uri, response.position) :
            OnlyInBase(types[t].name, response.uri, b) =>
                /\ response.symbol = GetSymbol(symbols, docClass[b], types[t].name, AnyKind)
                /\ response.error = NoError
                /\ response.result = [uri |-> b, range |-> symbols[response.symbol].range]
                /\ \E r \in getIndexedReferences(IndexedReferences,
                                                 GetHash(symbols, response.symbol)) :
                      r.location = [uri |-> response.uri, range |-> response.position]

\* The definition query at an identifier of the derived document returned a
\* member that only the base class declares
C16_Witness ==
    /\ response.method = "definition"
    /\ \E b \in BaseOf(response.uri) : \E t \in IdentifiersAt(response.uri, response.position) :
          /\ OnlyInBase(types[t].name, response.uri, b)
          /\ response.symbol \in Tree(symbols, b, gen[b])
          /\ response.result = [uri |-> b, range |-> symbols[response.symbol].range]

\* The same for an ignored name of a state of the derived class
C16_WitnessIgnored ==
    /\ C16_Witness
    /\ \E h \in Tree(symbols, response.uri, gen[response.uri]) :
          \E j \in DOMAIN symbols[h].ignoreRefs :
              types[symbols[h].ignoreRefs[j]].range = response.position



\* --------------------------------------------------------------- analysis
\* document.analyze() is not run on a document that holds this many
\* diagnostic nodes
MaxNodes == 8

\* symbol instanceof UCClassSymbol, UCStateSymbol, UCEnumSymbol or
\* UCScriptStructSymbol, by the kind the type reference expects
InstanceOf(sym, symbol, kind) == symbol \in DOMAIN sym /\ sym[symbol].kind = kind

\* document.nodes.push(new UnrecognizedTypeNode(this)) and
\* document.nodes.push(new SemanticErrorNode(this, message))
PushNode(a, node, t, message) ==
    [a EXCEPT !.nodes = Append(@, [node |-> node, range |-> a.typ[t].range,
                                   message |-> message])]

\* The message of the kind test
Expected ==
    (KindClass :> "Expected a class!") @@ (KindState :> "Expected a state!")
    @@ (KindEnum :> "Expected an enum!") @@ (KindStruct :> "Expected a struct!")

\* An analysis that resolves nothing and forgets the target it finds
ForgetReference(a, t) ==
    [a EXCEPT !.typ = [a.typ EXCEPT ![t].reference = NoRef]]

\* The kind test of UCObjectTypeSymbol.analyze on a resolved reference
ExpectKind(a, t) ==
    IF /\ a.typ[t].validTypeKind \in DOMAIN Expected
       /\ ~InstanceOf(a.sym, a.typ[t].reference, a.typ[t].validTypeKind)
    THEN PushNode(a, "SemanticErrorNode", t, Expected[a.typ[t].validTypeKind])
    ELSE a

\* UCObjectTypeSymbol.analyze: the base type first, then the reference
\* const symbol = this.getReference(), and what follows it
AnalyzeReference(a, t) ==
    IF a.typ[t].reference = NoRef
    THEN PushNode(a, "UnrecognizedTypeNode", t, "unrecognized type")
    ELSE ExpectKind(a, t)

RECURSIVE ObjectTypeAnalyze(_, _)

\* An analysis that does not look at the base type
NoBaseType(a, t) == a

\* if (this.baseType) this.baseType.analyze(document, context)
AnalyzeBaseType(a, t) ==
    IF a.typ[t].baseType = NoRef THEN a ELSE ObjectTypeAnalyze(a, a.typ[t].baseType)

\* UCObjectTypeSymbol.analyze: the base type first, then the reference
ObjectTypeAnalyze(a, t) == AnalyzeReference(AnalyzeBaseType(a, t), t)

\* The analysis of the extends clause of a struct and of the type of a
\* property
AnalyzeTypeOf(a, t) == IF t = NoRef THEN a ELSE ObjectTypeAnalyze(a, t)

RECURSIVE AnalyzeSymbol(_, _)

\* The children loop of the analysis of a struct
RECURSIVE AnalyzeChildren(_, _)
AnalyzeChildren(a, child) ==
    IF child = NoRef THEN a
    ELSE AnalyzeChildren(AnalyzeSymbol(a, child), a.sym[child].next)

\* symbol.analyze(document, context) by dynamic dispatch: a struct analyses
\* its extends clause and its children, a property its type
AnalyzeSymbol(a, h) ==
    CASE a.sym[h].kind \in StructKinds ->
            AnalyzeChildren(AnalyzeTypeOf(a, a.sym[h].extendsType), a.sym[h].children)
      [] a.sym[h].kind = "Property" -> AnalyzeTypeOf(a, a.sym[h].type)
      [] OTHER -> a

\* UCDocument.getNodes: one diagnostic per node of document.nodes
getNodes(nodes) ==
    [j \in DOMAIN nodes |->
        [range |-> nodes[j].range,
         message |-> IF "message" \in DOMAIN nodes[j] THEN nodes[j].message
                     ELSE nodes[j].node,
         source |-> "unrealscript"]]

\* UCDocument.analyze, as the state it leaves; a document without class is
\* not analysed
AnalyzeResult(d) ==
    IF docClass[d] = NoRef
    THEN [sym |-> symbols, typ |-> types, idx |-> IndexedReferences, made |-> docRefs[d],
          nodes |-> docNodes[d]]
    ELSE AnalyzeSymbol([sym |-> symbols, typ |-> types, idx |-> IndexedReferences,
                        made |-> docRefs[d], nodes |-> docNodes[d]],
                       docClass[d])

\* document.analyze()
Analyze(d) ==
    /\ response = NoResponse
    /\ StackIdle
    /\ Len(docNodes[d]) < MaxNodes
    /\ \E a \in {AnalyzeResult(d)} :
          /\ symbols' = a.sym
          /\ types' = a.typ
          /\ IndexedReferences' = a.idx
          /\ docRefs' = [docRefs EXCEPT ![d] = a.made]
          /\ docNodes' = [docNodes EXCEPT ![d] = a.nodes]
    /\ last' = [op |-> "analyze", doc |-> d, text |-> 0,
                again |-> (last.op = "analyze" /\ last.doc = d),
                keys |-> {}, threw |-> FALSE, escaped |-> FALSE, log |-> <<>>]
    /\ UNCHANGED <<SymbolsTable, docClass, gen, response, server>>

NextAnalysis ==
    \/ \E d \in Docs : \E k \in 1..Len(Texts[d]) :
          Sum(gen, Docs) < MaxQueryGen /\ IndexDocument(d, k)
    \/ \E d \in Docs : Invalidate(d)
    \/ \E d \in Docs : Analyze(d)

SpecAnalysis == Init /\ [][NextAnalysis]_vars

\* --------------------------------------------- the pending-document pipeline
\* The open, change and close notifications the model delivers at most
MaxEvents == 3

\* The text of a workspace file on disk, which queuIndexDocument(document)
\* reads when it is given no text
DiskText == 1

\* The position of a document's class identifier
ClassPosition == <<1, 0>>

\* A rebuild a handler still has to do, at its next step pc. server.running
\* holds the rebuilds of the handlers that have not returned, the running
\* one's first
Job(request, event, pc) ==
    [doc |-> request.doc, isDirty |-> request.isDirty, text |-> request.text,
     event |-> event, pc |-> pc]

\* pendingTextDocuments$.next(request): the subject hands the request to the
\* debounce operator if the pipeline is subscribed; debounce keeps only the
\* request it was handed last and restarts its timer
Emitted(srv, request) ==
    IF srv.subscribed THEN [srv EXCEPT !.debounced = request] ELSE srv

\* textDocuments.all().forEach(doc => pendingTextDocuments$.next(...)): of
\* the requests for the open documents, debounce keeps the one for the
\* document that comes last in the manager's order
EmittedAll(srv, lastOpen) ==
    IF lastOpen = NoName THEN srv
    ELSE Emitted(srv, [doc |-> lastOpen, isDirty |-> FALSE, text |-> srv.text[lastOpen]])

\* documents.forEach(...) of the documents$ subscriber, in the order of the
\* documents array
AllDocuments ==
    << Job([doc |-> "x", isDirty |-> FALSE, text |-> DiskText], FALSE, "handle"),
       Job([doc |-> "y", isDirty |-> FALSE, text |-> DiskText], FALSE, "handle") >>

\* A notification of the text documents manager: the handler emits a request
\* for the document with its present text
Notify(d, open, k, isDirty) ==
    /\ response = NoResponse
    /\ StackIdle
    /\ server.events < MaxEvents
    /\ server' = [Emitted(server, [doc |-> d, isDirty |-> isDirty, text |-> k])
                     EXCEPT !.open = open, !.text[d] = k, !.events = @ + 1]
    /\ UNCHANGED <<symbols, types, SymbolsTable, IndexedReferences, docClass, docNodes,
                   docRefs, gen, last, response>>

\* textDocuments.onDidOpen
DidOpen(d) ==
    d \notin server.open /\ Notify(d, server.open \cup {d}, server.text[d], FALSE)

\* textDocuments.onDidChangeContent: the document has a new text
DidChangeContent(d, k) ==
    d \in server.open /\ k # server.text[d] /\ Notify(d, server.open, k, TRUE)

\* textDocuments.onDidClose
DidClose(d) ==
    d \in server.open /\ Notify(d, server.open \ {d}, server.text[d], TRUE)

\* The workspace folders have been read: createDocuments fills documentsMap
\* and documents$ emits the list. Its subscriber either indexes every document
\* or emits a request for every open text document, and then isIndexReady$
\* emits true
Discover(indexAllDocuments) ==
    /\ response = NoResponse
    /\ StackIdle
    /\ server.documents = {}
    /\ \E lastOpen \in (IF server.open = {} THEN {NoName} ELSE server.open) :
          server' = IF indexAllDocuments
                    THEN [server EXCEPT !.documents = Docs, !.subscribed = TRUE,
                                        !.running = AllDocuments \o @]
                    ELSE [EmittedAll(server, lastOpen)
                             EXCEPT !.documents = Docs, !.subscribed = TRUE]
    /\ UNCHANGED <<symbols, types, SymbolsTable, IndexedReferences, docClass, docNodes,
                   docRefs, gen, last, response>>

\* The timer of debounce fires: the request it kept goes to the subscriber of
\* the pipeline, the pending-document handler
DebounceTimer ==
    /\ response = NoResponse
    /\ StackIdle
    /\ server.debounced # NoRequest
    /\ server' = [server EXCEPT !.debounced = NoRequest,
                                !.running = <<Job(server.debounced, TRUE, "handle")>> \o @]
    /\ UNCHANGED <<symbols, types, SymbolsTable, IndexedReferences, docClass, docNodes,
                   docRefs, gen, last, response>>

\* The rebuild the running handler is at
Running == Head(server.running)

\* The server when the rebuild at the head goes on to its step pc, or is over
\* (pc = "done")
Stepped(srv, pc) ==
    IF pc = "done"
    THEN [srv EXCEPT !.running = Tail(@)]
    ELSE [srv EXCEPT !.running = <<[Head(@) EXCEPT !.pc = pc]>> \o Tail(@)]

\* The document is left as indexed although the request is dirty
KeepsIndexed(srv, job) == srv.hasBeenIndexed[job.doc]

\* document.hasBeenIndexed when the handler tests it: invalidate, which the
\* handler has called for a dirty request, has reset it
StillIndexed(srv, job) == srv.hasBeenIndexed[job.doc] /\ ~job.isDirty

\* The pending-document handler up to its call of queuIndexDocument (and the
\* same test of hasBeenIndexed in the loop of the documents$ subscriber): a
\* request for a document that is not in documentsMap is ignored, a dirty
\* document is invalidated, a document that has been indexed is left alone
HandlePending ==
    /\ response = NoResponse
    /\ server.running # <<>>
    /\ Running.pc = "handle"
    /\ \E d \in {Running.doc} :
       \E known \in {~Running.event \/ d \in server.documents} :
       \E inv \in {IF known /\ Running.isDirty
                   THEN Invalidated(IndexedReferences, docRefs[d])
                   ELSE [class |-> docClass[d], nodes |-> docNodes[d],
                         idx |-> IndexedReferences, made |-> docRefs[d]]} :
       \E indexed \in {StillIndexed(server, Running)} :
          /\ IndexedReferences' = inv.idx
          /\ docClass' = [docClass EXCEPT ![d] = inv.class]
          /\ docNodes' = [docNodes EXCEPT ![d] = inv.nodes]
          /\ docRefs' = [docRefs EXCEPT ![d] = inv.made]
          /\ server' = IF ~known THEN Stepped(server, "done")
                       ELSE [Stepped(server, IF indexed THEN "done" ELSE "invalidate")
                                EXCEPT !.hasBeenIndexed[d] = indexed]
    /\ UNCHANGED <<symbols, types, SymbolsTable, gen, last, response>>

\* indexDocument, first step: document.invalidate()
IndexInvalidate ==
    /\ response = NoResponse
    /\ server.running # <<>>
    /\ Running.pc = "invalidate"
    /\ \E d \in {Running.doc} :
       \E inv \in {Invalidated(IndexedReferences, docRefs[d])} :
          /\ IndexedReferences' = inv.idx
          /\ docClass' = [docClass EXCEPT ![d] = inv.class]
          /\ docNodes' = [docNodes EXCEPT ![d] = inv.nodes]
          /\ docRefs' = [docRefs EXCEPT ![d] = inv.made]
    /\ server' = Stepped(server, "parse")
    /\ UNCHANGED <<symbols, types, SymbolsTable, gen, last, response>>

\* indexDocument, second step: document.parse(text) and the diagnostics of
\* the parse
IndexParse ==
    /\ response = NoResponse
    /\ server.running # <<>>
    /\ Running.pc = "parse"
    /\ \E d \in {Running.doc} :
       \E b \in {Parse(symbols, types, SymbolsTable, docClass[d], docNodes[d], d,
                       gen[d] + 1, Texts[d][Running.text])} :
          /\ symbols' = b.sym
          /\ types' = b.typ
          /\ SymbolsTable' = b.tbl
          /\ docClass' = [docClass EXCEPT ![d] = b.cls]
          /\ docNodes' = [docNodes EXCEPT ![d] = b.nodes]
          /\ gen' = [gen EXCEPT ![d] = @ + 1]
          /\ server' = Stepped(sendDiagnostics(server, d, "indexDocument"), "link")
    /\ UNCHANGED <<IndexedReferences, docRefs, last, response>>

\* lastIndexedDocuments$.next(documents) through filter and delay: the batch
\* is dropped when the option is None and else waits for the delay
LastIndexed(srv, d) ==
    IF srv.analyzeDocuments = "None" THEN srv ELSE [srv EXCEPT !.delayed = Append(@, d)]

\* indexDocument, last step: if (document.class) document.link(); the
\* document has then been indexed, and the batch of indexed documents is
\* announced
IndexLink ==
    /\ response = NoResponse
    /\ server.running # <<>>
    /\ Running.pc = "link"
    /\ \E d \in {Running.doc} :
       \E st \in {LinkIfClass(LinkerState([sym |-> symbols, typ |-> types,
                                           tbl |-> SymbolsTable],
                                          [made |-> docRefs[d], idx |-> IndexedReferences],
                                          d, gen[d]),
                              docClass[d])} :
          /\ symbols' = st.sym
          /\ types' = st.typ
          /\ IndexedReferences' = st.idx
          /\ docRefs' = [docRefs EXCEPT ![d] = st.made]
          /\ server' = [Stepped(LastIndexed(server, d), "done")
                           EXCEPT !.hasBeenIndexed[d] = TRUE]
    /\ UNCHANGED <<SymbolsTable, docClass, docNodes, gen, last, response>>

\* The subscriber of lastIndexedDocuments$, when the delay of a batch is
\* over: with the option OnlyActive the documents that are not open are left
\* out, the others are analysed and their diagnostics published
AnalyzeLastIndexed ==
    /\ response = NoResponse
    /\ StackIdle
    /\ server.delayed # <<>>
    /\ \E d \in {Head(server.delayed)} :
       \E skipped \in {server.analyzeDocuments = "OnlyActive" /\ d \notin server.open} :
       \E a \in {AnalyzeResult(d)} :
          /\ docNodes' = [docNodes EXCEPT ![d] = IF skipped THEN @ ELSE a.nodes]
          /\ server' = [(IF skipped THEN server ELSE sendDiagnostics(server, d, "analyze"))
                           EXCEPT !.delayed = Tail(@)]
    /\ UNCHANGED <<symbols, types, SymbolsTable, IndexedReferences, docClass, docRefs,
                   gen, last, response>>

NextServer ==
    \/ \E indexAllDocuments \in BOOLEAN : Discover(indexAllDocuments)
    \/ \E analyzeDocuments \in EAnalyzeOption : ChangeConfiguration(analyzeDocuments)
    \/ \E d \in Docs : DidOpen(d)
    \/ \E d \in Docs : \E k \in 1..Len(Texts[d]) : DidChangeContent(d, k)
    \/ \E d \in Docs : DidClose(d)
    \/ DebounceTimer
    \/ HandlePending
    \/ IndexInvalidate
    \/ IndexParse
    \/ IndexLink
    \/ AnalyzeLastIndexed
    \/ \E d \in Docs : Definition(d, ClassPosition)
    \/ SendResponse

SpecServer == Init /\ [][NextServer]_vars


\* A rebuild that indexDocument has begun and not finished
PartlyRebuilt(job) == job.pc \in {"invalidate", "parse", "link"}

\* The ready gate as it is meant: the workspace's document list has been
\* delivered and the configuration has been applied
WorkspaceReady == server.configured /\ server.documents # {}

\* C17: no document is indexed in response to an open, change or close event
\* before both the file discovery has delivered the document list and the
\* configuration has been applied.
C17_IndexedWhenReady ==
    \A j \in DOMAIN server.running :
        (server.running[j].event /\ PartlyRebuilt(server.running[j])) => WorkspaceReady

\* C17, its second half: an event that arrives before the gate opens is
\* deferred, that is, its request is pending after the notification
C17_EarlyEventsDeferred ==
    [][server'.events = server.events + 1 => server'.debounced # NoRequest]_vars

\* Once the workspace is ready in that sense, an event's request is pending
\* after the notification
C17_EventsPendingWhenReady ==
    [][(WorkspaceReady /\ server'.events = server.events + 1)
          => server'.debounced # NoRequest]_vars

\* A document is being indexed for an event after the discovery and before
\* the configuration
C17_IndexedUnconfigured ==
    /\ ~StackIdle
    /\ Running.event /\ Running.pc = "link"
    /\ server.documents # {} /\ ~server.configured


\* A step drops the pending request: another request takes its place in the
\* debounce operator before the timer has fired
DropsPending ==
    /\ server.debounced # NoRequest
    /\ server'.debounced # NoRequest
    /\ server'.debounced # server.debounced

\* C18: coalescing of pending re-index requests is per document: a pending
\* request for a document is dropped only when a newer request for the same
\* document supersedes it, never by a request for another document.
C18_CoalescedPerDocument ==
    [][DropsPending => server'.debounced.doc = server.debounced.doc]_vars

\* C18, its last part: a dropped request is never started, the handler
\* starts with the request that is pending when the timer fires
C18_DroppedNeverStarted ==
    [][(StackIdle /\ server'.running # <<>> /\ Head(server'.running).event)
          => Head(server'.running) = Job(server.debounced, TRUE, "handle")]_vars

\* A request for the same document supersedes the pending one
C18_SameDocumentSupersedes ==
    [][~(DropsPending /\ server'.debounced.doc = server.debounced.doc)]_vars


\* The rebuilds that are begun and not finished
PartlyRebuiltJobs == {j \in DOMAIN server.running : PartlyRebuilt(server.running[j])}

\* C19: document rebuilds are serialized: the invalidate, parse and link
\* steps of one document's rebuild run to completion before any step of
\* another rebuild starts, so never are two documents partly rebuilt at once
\* and no query is answered from a partly built tree.
C19_RebuildsSerialized ==
    /\ Cardinality(PartlyRebuiltJobs) <= 1
    /\ PartlyRebuiltJobs \subseteq {1}
    /\ response # NoResponse => PartlyRebuiltJobs = {}

\* One document is parsed and not yet linked while the rebuild of another
\* waits for it to finish
C19_Witness ==
    /\ Len(server.running) = 2
    /\ Running.pc = "link"
    /\ server.running[2].doc # Running.doc
    /\ docClass[Running.doc] # NoRef /\ docRefs[Running.doc] = EmptyMap

\* A query is answered between two rebuilds of the same handler's loop
C19_QueryAfterRebuild ==
    /\ response # NoResponse
    /\ \A d \in Docs : server.hasBeenIndexed[d]

\* --------------------------------------------------- scope stack balance
\* The enter events of the declarations that have an exit event, and the
\* exit events
EnterEvents ==
    {"enterStructDecl", "enterStateDecl", "enterFunctionDecl", "enterEnumDecl",
     "enterDefaultPropertiesBlock"}

ExitEvents ==
    {"exitStructDecl", "exitStateDecl", "exitFunctionDecl", "exitEnumDecl",
     "exitDefaultPropertiesBlock"}

\* The index of the exit event that closes the declaration entered at i:
\* j scans from i + 1 with the number of declarations open in between
RECURSIVE ExitOf(_, _, _)
ExitOf(text, j, open) ==
    IF j > Len(text) THEN j
    ELSE IF text[j].ev \in ExitEvents
         THEN IF open = 0 THEN j ELSE ExitOf(text, j + 1, open - 1)
         ELSE IF text[j].ev \in EnterEvents
              THEN ExitOf(text, j + 1, open + 1)
              ELSE ExitOf(text, j + 1, open)

\* The builder after the first i events of a text of document d, built into
\* the present heaps as the document's next tree
BuiltUpTo(d, text, i) ==
    Parse(symbols, types, SymbolsTable, NoRef, <<>>, d, gen[d] + 1, SubSeq(text, 1, i))

\* A declaration the builder skips: its identifier token is missing
IsSkipped(text, i) ==
    /\ text[i].ev \in EnterEvents \ {"enterDefaultPropertiesBlock"}
    /\ text[i].name = NoName

\* The text without its skipped declarations (their enter and exit events)
RECURSIVE WithoutSkipped(_, _)
WithoutSkipped(text, i) ==
    IF i > Len(text) THEN <<>>
    ELSE IF IsSkipped(text, i)
         THEN WithoutSkipped(text, ExitOf(text, i + 1, 0) + 1)
         ELSE <<text[i]>> \o WithoutSkipped(text, i + 1)

\* The name of a scope: a package, or a symbol of the heap
ScopeName(sym, o) ==
    IF o = NoRef THEN NoName
    ELSE IF o[1] = "package" THEN "package" ELSE sym[o].name

\* Every symbol of generation g of document d with the scope it is in
ScopesOf(sym, d, g) ==
    {<<sym[h].kind, sym[h].name, ScopeName(sym, sym[h].outer)>> :
        h \in {s \in DOMAIN sym : s[1] = d /\ s[2] = g}}

\* C20: for every declaration the builder enters, built or skipped for a
\* missing identifier, the scope stack after its exit event equals the scope
\* stack before its enter event, and so the declarations of the indexed
\* document are in the scopes they would be in without the skipped ones.
C20_ScopeStackBalanced ==
    last.op = "indexDocument" =>
        LET d == last.doc
            text == Texts[d][last.text]
        IN /\ \A i \in 1..Len(text) :
                 text[i].ev \in EnterEvents =>
                     BuiltUpTo(d, text, ExitOf(text, i + 1, 0)).stack
                         = BuiltUpTo(d, text, i - 1).stack
           /\ ScopesOf(symbols, d, gen[d])
                 = ScopesOf(BuiltUpTo(d, WithoutSkipped(text, 1),
                                      Len(WithoutSkipped(text, 1))).sym,
                            d, gen[d] + 1)

\* The same for the declarations that are built: the scope stack is
\* balanced around every declaration that has its identifier
C20_BuiltBalanced ==
    last.op = "indexDocument" =>
        LET d == last.doc
            text == Texts[d][last.text]
        IN \A i \in 1..Len(text) :
              (text[i].ev \in EnterEvents /\ ~IsSkipped(text, i)) =>
                  BuiltUpTo(d, text, ExitOf(text, i + 1, 0)).stack
                      = BuiltUpTo(d, text, i - 1).stack

\* A document with a skipped declaration has been indexed and the struct
\* declared after it is in the package, not in the class
C20_SkippedPopsClass ==
    \E h \in DOMAIN symbols :
        /\ last.op = "indexDocument" /\ h[1] = last.doc /\ h[2] = gen[last.doc]
        /\ symbols[h].kind = "Struct" /\ symbols[h].name = "t"
        /\ symbols[h].outer = PackageRef


\* ------------------------------------------------- exceptions while indexing
\* The records of an index that are located in document d, with their keys
RecordsAt(idx, d) ==
    UNION {{<<key, r>> : r \in {q \in idx[key] : q.location.uri = d}} : key \in DOMAIN idx}

\* The objects of a heap that document d created
ObjectsOf(heap, d) == [h \in {o \in DOMAIN heap : o[1] = d} |-> heap[h]]

\* C21: an exception thrown while document D is parsed or linked is caught
\* inside indexDocument, and afterwards every other document's class tree,
\* references-made map and records in the global index are what they were,
\* and the records of the global index located in D are those of D's
\* references-made map.
C21_ExceptionContained ==
    [][(last'.op = "indexDocument" /\ last'.threw) =>
          /\ \A o \in Docs \ {last'.doc} :
                /\ docClass'[o] = docClass[o]
                /\ docRefs'[o] = docRefs[o]
                /\ ObjectsOf(symbols', o) = ObjectsOf(symbols, o)
                /\ ObjectsOf(types', o) = ObjectsOf(types, o)
                /\ RecordsAt(IndexedReferences', o) = RecordsAt(IndexedReferences, o)
          /\ RecordsAt(IndexedReferences', last'.doc) = RecordsAt(docRefs'[last'.doc], last'.doc)
          /\ \A key \in DOMAIN docRefs'[last'.doc] :
                \A r \in docRefs'[last'.doc][key] : r.location.uri = last'.doc]_vars

\* The builder threw while x was parsed, after y had been indexed and had
\* made references
C21_Witness ==
    /\ last.op = "indexDocument" /\ last.threw /\ last.doc = "x"
    /\ docClass["x"] # NoRef
    /\ docClass["y"] # NoRef /\ docRefs["y"] # EmptyMap

\* The linker threw while y was linked, after x had been indexed and had made
\* references, and y has made references all the same
C21_WitnessLink ==
    /\ last.op = "indexDocument" /\ last.threw /\ last.doc = "y"
    /\ docRefs["y"] # EmptyMap
    /\ docClass["x"] # NoRef /\ docRefs["x"] # EmptyMap


\* The children chain of a struct, from chain element c on
RECURSIVE ChainFrom(_, _)
ChainFrom(sym, c) == IF c = NoRef THEN <<>> ELSE <<c>> \o ChainFrom(sym, sym[c].next)

\* How many times index was called on the symbol h
TimesIndexed(log, h) == Cardinality({j \in DOMAIN log : log[j] = h})

\* The struct-like symbols index was called on
StructsIndexed(log) == {log[j] : j \in DOMAIN log} \cap {h \in DOMAIN symbols : IsStruct(symbols, h)}

\* C22: when a struct-like symbol is indexed, index is called exactly once on
\* every child of its children chain, in the order of the chain, even if the
\* index of a child throws: the exception is caught per child, the siblings
\* after it are indexed all the same, and nothing propagates to the caller.
C22_EveryChildIndexed ==
    last.op = "indexDocument" =>
        /\ ~last.escaped
        /\ \A s \in StructsIndexed(last.log) :
              \A j \in DOMAIN ChainFrom(symbols, symbols[s].children) :
                  TimesIndexed(last.log, ChainFrom(symbols, symbols[s].children)[j]) = 1
        /\ \A j \in DOMAIN last.log : TimesIndexed(last.log, last.log[j]) = 1

\* The index of the first child of the class of y threw, and the children
\* after it were indexed and resolved their types
C22_Witness ==
    /\ last.op = "indexDocument" /\ last.doc = "y" /\ last.threw /\ ~last.escaped
    /\ \E q \in DOMAIN symbols :
          /\ symbols[docClass["y"]].children = q
          /\ symbols[q].kind = "State"
          /\ symbols[q].super # NoRef /\ ~IsStruct(symbols, symbols[q].super)
          /\ \E j \in DOMAIN symbols[q].ignoreRefs :
                types[symbols[q].ignoreRefs[j]].reference = NoRef
          /\ \E c \in DOMAIN symbols :
                /\ symbols[q].next = c
                /\ symbols[c].kind = "Property"
                /\ types[symbols[c].type].reference # NoRef
                /\ TimesIndexed(last.log, c) = 1




\* The step is a run of document.analyze()
AnalyzeStep == last'.op = "analyze" /\ (last' # last \/ docNodes' # docNodes)

\* C23: the analysis run again on an unchanged indexed tree returns the same
\* diagnostic list as the run before it: diagnostics do not accumulate
C23_AnalysisRepeatable ==
    [][(AnalyzeStep /\ last.op = "analyze" /\ last.doc = last'.doc) =>
          getNodes(docNodes'[last'.doc]) = getNodes(docNodes[last'.doc])]_vars

\* C24: the analysis leaves the symbol graph, the symbols table and the
\* reference index, global and per document, as they were
C24_AnalysisReadsOnly ==
    [][AnalyzeStep =>
          /\ symbols' = symbols
          /\ types' = types
          /\ SymbolsTable' = SymbolsTable
          /\ IndexedReferences' = IndexedReferences
          /\ docRefs' = docRefs
          /\ docClass' = docClass]_vars

\* An analysis has reported a resolved reference of the wrong kind and an
\* unresolved one in a document whose references are indexed
C24_Witness ==
    /\ last.op = "analyze"
    /\ docClass[last.doc] # NoRef
    /\ docRefs[last.doc] # EmptyMap
    /\ \E j, k \in DOMAIN docNodes[last.doc] :
          /\ docNodes[last.doc][j].node = "SemanticErrorNode"
          /\ docNodes[last.doc][k].node = "UnrecognizedTypeNode"


\* The symbols the analysis started at h reaches: h and, through the
\* children chains, what its children reach
RECURSIVE Analysed(_)
Analysed(h) == {h} \cup UNION {Analysed(c) : c \in Members(h)}

\* The type references the analysis of document d reaches: the extends
\* clauses and the declared types of the analysed symbols, and their inner
\* base types
AnalysedTypes(d) ==
    IF docClass[d] = NoRef THEN {}
    ELSE {t \in Tree(types, d, gen[d]) :
            \E h \in Analysed(docClass[d]) :
                \E u \in {symbols[h].type, symbols[h].extendsType} \ {NoRef} :
                    t \in {u, types[u].baseType}}

\* The diagnostics the step has added to the list of document d
Added(d) == SubSeq(getNodes(docNodes'[d]), Len(docNodes[d]) + 1, Len(docNodes'[d]))

\* The diagnostics of the list at the range
At(list, range) == {j \in DOMAIN list : list[j].range = range}

\* The reference is resolved to a symbol that is not of the kind it expects
WrongKind(t) ==
    /\ types[t].reference # NoRef
    /\ types[t].validTypeKind \in {KindClass, KindState, KindEnum, KindStruct}
    /\ ~(/\ types[t].reference \in DOMAIN symbols
         /\ symbols[types[t].reference].kind = types[t].validTypeKind)

\* The message the claim gives the reference, "" for none
MessageFor(t) ==
    IF types[t].reference = NoRef THEN "unrecognized type"
    ELSE IF ~WrongKind(t) THEN ""
    ELSE CASE types[t].validTypeKind = KindClass -> "Expected a class!"
           [] types[t].validTypeKind = KindState -> "Expected a state!"
           [] types[t].validTypeKind = KindEnum -> "Expected an enum!"
           [] types[t].validTypeKind = KindStruct -> "Expected a struct!"

\* C25: a run of the analysis adds, for every type reference it reaches,
\* exactly one "unrecognized type" diagnostic at the reference's range when
\* the reference is unresolved, exactly one "Expected a <kind>" diagnostic
\* when it is resolved to a symbol of another kind than the class, state,
\* enum or struct it expects, and none otherwise; it adds nothing else, so a
\* document whose references all resolve to the expected kind gets none
C25_DiagnosticPerReference ==
    [][AnalyzeStep =>
          /\ \A t \in AnalysedTypes(last'.doc) :
                \A j \in At(Added(last'.doc), types[t].range) :
                    /\ Added(last'.doc)[j].message = MessageFor(t)
                    /\ At(Added(last'.doc), types[t].range) = {j}
          /\ \A t \in AnalysedTypes(last'.doc) :
                MessageFor(t) # "" => At(Added(last'.doc), types[t].range) # {}
          /\ \A j \in DOMAIN Added(last'.doc) :
                \E t \in AnalysedTypes(last'.doc) : Added(last'.doc)[j].range = types[t].range]_vars

\* The list of document d holds exactly one diagnostic at the range of t,
\* with the message
OneAt(d, t, message) ==
    \E j \in DOMAIN docNodes[d] :
        /\ At(docNodes[d], types[t].range) = {j}
        /\ docNodes[d][j].message = message

\* An analysis has reported once an unresolved inner base type and once the
\* unresolved type it is the base of, once an enum and once a struct
\* reference resolved to something else, and nothing for a struct reference
\* resolved to a struct
C25_Witness ==
    /\ last.op = "analyze"
    /\ \E t, u, v, w, r \in AnalysedTypes(last.doc) :
          /\ types[t].baseType = u
          /\ types[u].reference = NoRef
          /\ OneAt(last.doc, u, "unrecognized type")
          /\ OneAt(last.doc, t, "unrecognized type")
          /\ types[v].reference # NoRef
          /\ OneAt(last.doc, v, "Expected an enum!")
          /\ types[w].reference # NoRef
          /\ OneAt(last.doc, w, "Expected a struct!")
          /\ types[r].validTypeKind = KindStruct
          /\ types[r].reference # NoRef
          /\ At(docNodes[last.doc], types[r].range) = {}

\* An analysis has reported once a class reference resolved to a struct
C25_WitnessClass ==
    /\ last.op = "analyze"
    /\ \E t \in AnalysedTypes(last.doc) :
          /\ IsStruct(symbols, types[t].reference)
          /\ OneAt(last.doc, t, "Expected a class!")

\* An analysis has reported once a state reference resolved to a property
\* of a resolved type, for which it reports nothing
C25_WitnessState ==
    /\ last.op = "analyze"
    /\ \E t, u \in AnalysedTypes(last.doc) :
          /\ types[t].reference \in DOMAIN symbols
          /\ symbols[types[t].reference].type = u
          /\ types[u].reference # NoRef
          /\ At(docNodes[last.doc], types[u].range) = {}
          /\ OneAt(last.doc, t, "Expected a state!")

\* An analysis of a document whose references all resolve to the expected
\* kind has left its list of diagnostics empty
C25_WitnessResolved ==
    /\ last.op = "analyze"
    /\ AnalysedTypes(last.doc) # {}
    /\ \A t \in AnalysedTypes(last.doc) : MessageFor(t) = ""
    /\ docNodes[last.doc] = <<>>


\* The analysis option allows diagnostics for the document: never with
\* None, for open documents only with OnlyActive
Allowed(p) == p.mode # "None" /\ (p.mode = "OnlyActive" => p.open)

\* C26: the analysis option decides which documents receive diagnostics: no
\* diagnostics are published for any document while the option is None, and
\* only for documents open in the editor while it is OnlyActive
C26_ModeDecides == \A p \in server.published : Allowed(p)

\* C26 for the diagnostics of the analysis alone: the option in force when
\* the batch is processed decides
C26_AnalysisModeDecides ==
    \A p \in server.published : p.by = "analyze" => Allowed(p)

\* C26, the option All: every document of a batch that is processed is
\* analysed and receives diagnostics
C26_AllAnalysed ==
    [][(server.delayed # <<>> /\ server'.delayed = Tail(server.delayed)
            /\ server.analyzeDocuments = "All")
          => \E p \in server'.published :
                /\ p.uri = Head(server.delayed)
                /\ p.by = "analyze"
                /\ p.mode = "All"]_vars

\* Diagnostics of the analysis have been published for a closed document
\* under All and none under OnlyActive
C26_Witness ==
    \E p \in server.published :
        /\ p.by = "analyze"
        /\ p.mode = "All"
        /\ ~p.open


\* The hashes of the symbols that exist, and the sets of records the
\* documents hold in their references-made maps
Hashes == {GetHash(symbols, h) : h \in DOMAIN symbols}
RecordSets == {{}} \cup UNION {{docRefs[d][key] : key \in DOMAIN docRefs[d]} : d \in Docs}

\* C27: no key of the global reference index maps to an empty set;
\* unsetIndexedReferences on a key the index does not hold leaves the index
\* as it is, and getIndexedReferences on such a key returns the empty set
C27_NoEmptyEntry ==
    /\ \A key \in DOMAIN IndexedReferences : IndexedReferences[key] # {}
    /\ \A key \in Hashes \ DOMAIN IndexedReferences :
          /\ getIndexedReferences(IndexedReferences, key) = {}
          /\ \A refs \in RecordSets :
                unsetIndexedReferences(IndexedReferences, key, refs) = IndexedReferences

\* C27: a request that reads the references of a symbol leaves the index as
\* it is, whether or not the index holds the symbol's hash
C27_ReadCreatesNoEntry ==
    [][response' # response => IndexedReferences' = IndexedReferences]_vars

\* An invalidation has removed the last record of an entry, which is gone,
\* while other entries remain
C27_Witness ==
    /\ last.op = "invalidate"
    /\ last.keys \ DOMAIN IndexedReferences # {}
    /\ IndexedReferences # EmptyMap
    /\ RecordSets # {{}}


\* ------------------------------------------------------------- completion
\* child.acceptCompletion(document, context): every symbol is eligible
acceptCompletion(sym, child, context) == TRUE

\* The loop of getCompletionSymbols over a children chain, from element c
\* on: the children that pass the type filter and accept the completion
RECURSIVE CompletionChildren(_, _, _, _)
CompletionChildren(sym, c, type, context) ==
    IF c = NoRef THEN <<>>
    ELSE (IF /\ (type = AnyKind \/ GetTypeFlags(sym[c]) \cap type # {})
             /\ acceptCompletion(sym, c, context)
          THEN <<c>> ELSE <<>>)
         \o CompletionChildren(sym, sym[c].next, type, context)

\* The loop of getCompletionSymbols over the parents: parent.super ??
\* parent.outer, until there is none (a package has neither)
RECURSIVE CompletionParents(_, _, _, _, _)
CompletionParents(sym, parent, type, context, fuel) ==
    IF fuel = 0 \/ parent \notin DOMAIN sym THEN <<>>
    ELSE CompletionChildren(sym, sym[parent].children, type, context)
         \o CompletionParents(sym, OrElse(sym[parent].super, sym[parent].outer), type,
                              context, fuel - 1)

\* UCStructSymbol.getCompletionSymbols
getCompletionSymbols(sym, s, type) ==
    CompletionChildren(sym, sym[s].children, type, s)
    \o CompletionParents(sym, OrElse(sym[s].super, sym[s].outer), type, s, MaxDepth)

\* The struct-like symbols of the tree document d holds
Contexts(d) == {s \in LiveSymbols(d) : IsStruct(symbols, s)}

\* The symbol is among the completion symbols of the context s
Completes(s, symbol) ==
    \E j \in DOMAIN getCompletionSymbols(symbols, s, AnyKind) :
        getCompletionSymbols(symbols, s, AnyKind)[j] = symbol

\* What findSuperSymbol resolves the name to from the context s
Resolved(s, id) == FindSuperSymbol(symbols, s, id, AnyKind, MaxDepth)

\* C28: without a kind filter, every symbol findSuperSymbol can resolve from
\* a context struct is among the completion symbols of that context:
\* getCompletionSymbols visits the scopes findSuperSymbol searches
C28_CompletionCoversLookup ==
    \A d \in Docs : \A s \in Contexts(d) : \A id \in Names :
        Resolved(s, id) \in DOMAIN symbols => Completes(s, Resolved(s, id))

\* C28 for the contexts that are no state with a super state: for them the
\* completion covers the lookup
C28_CoversOutsideDerivedStates ==
    \A d \in Docs : \A s \in Contexts(d) : \A id \in Names :
        (/\ ~(symbols[s].kind = "State" /\ symbols[s].super # NoRef)
         /\ Resolved(s, id) \in DOMAIN symbols)
            => Completes(s, Resolved(s, id))

\* C28, the order: the completion symbols begin with the children of the
\* context, in the order of its children chain
C28_OwnChildrenFirst ==
    \A d \in Docs : \A s \in Contexts(d) :
        SubSeq(getCompletionSymbols(symbols, s, AnyKind), 1,
               Len(ChainFrom(symbols, symbols[s].children)))
            = ChainFrom(symbols, symbols[s].children)


\* ------------------------------------------- queries on unresolved references
\* The type references of the current parse of d at the position
TypesAt(d, pos) == {t \in Tree(types, d, gen[d]) : types[t].range = pos}

\* C29: a definition request at the position of a type reference that has no
\* target finds no symbol and is answered "no definition", without an error;
\* a request at the position of a type reference finds a symbol only if the
\* reference is resolved, and then the reference's target
C29_UnresolvedHasNoDefinition ==
    response.method = "definition" =>
        \A t \in TypesAt(response.uri, response.position) :
            /\ types[t].reference = NoRef =>
                  /\ response.symbol = NoRef
                  /\ response.result = Undefined
                  /\ response.error = NoError
            /\ response.symbol # NoRef => response.symbol = types[t].reference

\* C29 for a tree that is built and not yet, or only partly, indexed: the
\* position query at an unresolved type reference finds no symbol
C29_NoSymbolWhileUnresolved ==
    \A d \in Docs : \A t \in Tree(types, d, gen[d]) :
        types[t].reference = NoRef => getSymbolDefinition(d, types[t].range) = NoRef

\* A definition request at an unresolved type reference of a document that
\* has its class has been answered "no definition"
C29_Witness ==
    /\ response.method = "definition"
    /\ docClass[response.uri] # NoRef
    /\ \E t \in TypesAt(response.uri, response.position) :
          /\ types[t].reference = NoRef
          /\ types[t].outer \in DOMAIN symbols
    /\ response.result = Undefined

\* A definition request at a resolved type reference has found its target
C29_WitnessResolved ==
    /\ response.method = "definition"
    /\ \E t \in TypesAt(response.uri, response.position) :
          /\ types[t].reference \in DOMAIN symbols
          /\ response.symbol = types[t].reference
    /\ response.result # Undefined

\* The tree of a document is built and not yet indexed, and it has an
\* unresolved type reference that indexing is about to resolve
C29_WitnessPartlyIndexed ==
    /\ server.running # <<>>
    /\ Head(server.running).pc = "link"
    /\ \E t \in Tree(types, Head(server.running).doc, gen[Head(server.running).doc]) :
          /\ types[t].reference = NoRef
          /\ types[t].name \in DOMAIN SymbolsTable


\* ------------------------------------------------------ the document indexer
\* The symbols a document declares besides its class, at most
MaxWalk == 4

\* A symbol with its statement block (for a parameter: its default
\* expression), present or not
BlockSymbol(kind, n, block) ==
    [kind |-> kind, name |-> kind, range |-> <<n, 0>>, outer |-> NoRef, next |-> NoRef,
     children |-> NoRef, super |-> NoRef, extendsType |-> NoRef, type |-> NoRef,
     value |-> -1, ignoreRefs |-> <<>>, overriddenState |-> NoRef, block |-> block]

\* What the grammar lets a scope declare: a class its states, functions,
\* structs, blocks and variables, a state its functions, a function its
\* parameters and locals, a struct its variables and its defaults block, a
\* defaults block and an object literal their object literals
Nested ==
    [Class |-> {"State", "Method", "Struct", "DefaultPropertiesBlock", "ReplicationBlock",
                "Property"},
     State |-> {"Method"},
     Method |-> {"Param", "Property"},
     Struct |-> {"Property", "DefaultPropertiesBlock"},
     DefaultPropertiesBlock |-> {"Object"},
     Object |-> {"Object"},
     ReplicationBlock |-> {},
     Param |-> {},
     Property |-> {}]

\* The kinds that can have a block (a parameter: a default expression)
WithBlock == {"State", "Method", "DefaultPropertiesBlock", "ReplicationBlock", "Object",
              "Param"}

\* A test that takes no child for a struct
NoStructSymbol(sym, h) == FALSE

\* child instanceof UCStructSymbol
IsStructSymbol(sym, h) == sym[h].kind \notin {"Param", "Property"}

\* symbol.block.index(this.document, context), if the symbol has a block
IndexBlock(sym, log, h, context) ==
    IF sym[h].block
    THEN Append(log, [what |-> "block", symbol |-> h, context |-> context])
    ELSE log

RECURSIVE Accept(_, _, _)

\* The loop of visitStructBase from the child on: the struct-like children
\* accept the walker
RECURSIVE VisitChildren(_, _, _)
VisitChildren(sym, log, child) ==
    IF child = NoRef THEN log
    ELSE VisitChildren(sym,
                       IF IsStructSymbol(sym, child) THEN Accept(sym, log, child) ELSE log,
                       sym[child].next)

\* DocumentIndexer.visitStructBase
VisitStructBase(sym, log, h) == VisitChildren(sym, log, sym[h].children)

\* The loop of visitMethod over the children: the default expression of a
\* parameter is indexed in the context of the method
RECURSIVE ParamDefaults(_, _, _, _)
ParamDefaults(sym, log, child, method) ==
    IF child = NoRef THEN log
    ELSE ParamDefaults(sym,
                       IF sym[child].kind = "Param" /\ sym[child].block
                       THEN Append(log, [what |-> "defaultExpression", symbol |-> child,
                                         context |-> method])
                       ELSE log,
                       sym[child].next, method)

\* symbol.accept(walker) by dynamic dispatch: visitClass, visitState,
\* visitMethod, visitDefaultPropertiesBlock, visitReplicationBlock and
\* visitObjectSymbol of DocumentIndexer, and visitStructBase for a struct
Accept(sym, log, h) ==
    CASE sym[h].kind \in {"State", "DefaultPropertiesBlock"} ->
            VisitStructBase(sym, IndexBlock(sym, log, h, h), h)
      [] sym[h].kind = "Method" ->
            ParamDefaults(sym, IndexBlock(sym, log, h, h), sym[h].children, h)
      [] sym[h].kind = "ReplicationBlock" -> IndexBlock(sym, log, h, h)
      [] sym[h].kind = "Object" ->
            VisitStructBase(sym, IndexBlock(sym, log, h, OrElse(sym[h].super, h)), h)
      [] OTHER -> VisitStructBase(sym, log, h)

\* The document whose tree the indexer walks, and its class
Walked == "x"
WalkedClass == <<Walked, 1, 1>>

\* The scopes on the scope stack: the symbol declared last and the scopes
\* around it
RECURSIVE ScopesAround(_)
ScopesAround(h) == IF h \in DOMAIN symbols THEN {h} \cup ScopesAround(symbols[h].outer) ELSE {}

\* A declaration of the walked document: the new symbol is declared in a
\* scope of the scope stack
DeclareSymbol(scope, kind, block) ==
    /\ Cardinality(DOMAIN symbols) <= MaxWalk
    /\ scope \in ScopesAround(<<Walked, 1, Cardinality(DOMAIN symbols)>>)
    /\ kind \in Nested[symbols[scope].kind]
    /\ block => kind \in WithBlock
    /\ \E h \in {<<Walked, 1, Cardinality(DOMAIN symbols) + 1>>} :
          symbols' = AddSymbol(symbols @@ (h :> BlockSymbol(kind, h[3], block)), scope, h)
    /\ last' = [last EXCEPT !.op = "declare", !.log = <<>>]
    /\ UNCHANGED <<types, SymbolsTable, IndexedReferences, docClass, docNodes, docRefs,
                   gen, response, server>>

\* document.class.accept(new DocumentIndexer(document))
AcceptIndexer ==
    /\ last' = [last EXCEPT !.op = "accept",
                            !.log = Accept(symbols, <<>>, docClass[Walked])]
    /\ UNCHANGED <<symbols, types, SymbolsTable, IndexedReferences, docClass, docNodes,
                   docRefs, gen, response, server>>

\* A document that has declared its class
InitWalker ==
    /\ symbols = (WalkedClass :> BlockSymbol("Class", 1, FALSE))
    /\ types = <<>>
    /\ SymbolsTable = <<>>
    /\ IndexedReferences = EmptyMap
    /\ docClass = [d \in Docs |-> IF d = Walked THEN WalkedClass ELSE NoRef]
    /\ docNodes = [d \in Docs |-> <<>>]
    /\ docRefs = [d \in Docs |-> EmptyMap]
    /\ gen = [d \in Docs |-> IF d = Walked THEN 1 ELSE 0]
    /\ last = [op |-> "init", doc |-> Walked, text |-> 0, again |-> FALSE, keys |-> {},
               threw |-> FALSE, escaped |-> FALSE, log |-> <<>>]
    /\ response = NoResponse
    /\ server = [configured |-> FALSE, documents |-> {}, subscribed |-> FALSE,
                 debounced |-> NoRequest, open |-> {}, text |-> [d \in Docs |-> 1],
                 hasBeenIndexed |-> [d \in Docs |-> FALSE], running |-> <<>>,
                 events |-> 0, analyzeDocuments |-> "OnlyActive", delayed |-> <<>>,
                 published |-> {}]

NextWalker ==
    \/ \E scope \in DOMAIN symbols : \E kind \in DOMAIN Nested : \E block \in BOOLEAN :
          DeclareSymbol(scope, kind, block)
    \/ AcceptIndexer

SpecWalker == InitWalker /\ [][NextWalker]_vars

\* The symbols nested in h, through the children chains
RECURSIVE NestedIn(_)
NestedIn(h) == UNION {{c} \cup NestedIn(c) : c \in Members(h)}

\* The positions of the log at which the block of h is indexed
BlockIndexedAt(h) ==
    {j \in DOMAIN last.log : last.log[j].what = "block" /\ last.log[j].symbol = h}

\* The symbols of the kinds that have a block to index, reachable from the
\* class
Blocks ==
    {h \in NestedIn(docClass[Walked]) :
        /\ symbols[h].kind \in {"State", "Method", "DefaultPropertiesBlock",
                                "ReplicationBlock", "Object"}
        /\ symbols[h].block}

\* C30: the indexer started at the class indexes the block of every state,
\* method, defaults block, replication block and object literal reachable
\* through the children chains exactly once and no other block, and the
\* block of a symbol before the block of any symbol nested in it
C30_BlocksIndexedPreOrder ==
    last.op = "accept" =>
        /\ \A h \in Blocks : Cardinality(BlockIndexedAt(h)) = 1
        /\ \A j \in DOMAIN last.log :
              last.log[j].what = "block" => last.log[j].symbol \in Blocks
        /\ \A g \in Blocks : \A h \in Blocks \cap NestedIn(g) :
              \A j \in BlockIndexedAt(g) : \A k \in BlockIndexedAt(h) : j < k

\* The indexer has walked a class with a state that has a block and declares
\* a function with a block, and a defaults block with a block that holds an
\* object literal with a block
C30_Witness ==
    /\ last.op = "accept"
    /\ \E g, h, k, m \in Blocks :
          /\ symbols[g].kind = "State"
          /\ symbols[h].kind = "Method"
          /\ h \in NestedIn(g)
          /\ symbols[k].kind = "DefaultPropertiesBlock"
          /\ symbols[m].kind = "Object"
          /\ m \in NestedIn(k)
    /\ Len(last.log) = 4


\* ------------------------------------------- re-indexing on change and close
\* The running handler is the pending-document handler with a request of a
\* change or close event (isDirty) for a document of the workspace
DirtyJob ==
    /\ server.running # <<>>
    /\ Running.event /\ Running.isDirty
    /\ Running.doc \in server.documents

\* The declared symbols of the tree of generation g of document d: position
\* in the tree, name and kind
TreeNames(heap, d, g) == {<<h[3], heap[h].name, heap[h].kind>> : h \in Tree(heap, d, g)}

\* The tree of document d is the one its text k builds
BuiltFrom(d, k) ==
    TreeNames(symbols, d, gen[d])
        = TreeNames(Parse(symbols, types, SymbolsTable, NoRef, <<>>, d, gen[d] + 1,
                          Texts[d][k]).sym, d, gen[d] + 1)

\* C31: the pending-document handler, given the request of a change or close
\* event for a workspace document, invalidates the document and goes on to
\* index it from the editor's present text, whether or not it had been
\* indexed; when that rebuild is over the document's tree is the one of the
\* present text, its references are those the link made, and the document
\* counts as indexed.
C31_DirtyIsReindexed ==
    [][(DirtyJob /\ server'.running # server.running)
          => \E d \in {Running.doc} :
               CASE Running.pc = "handle" ->
                        /\ docClass'[d] = NoRef /\ docRefs'[d] = EmptyMap
                        /\ docNodes'[d] = <<>>
                        /\ ~server'.hasBeenIndexed[d]
                        /\ server'.running = <<[Running EXCEPT !.pc = "invalidate"]>>
                                                 \o Tail(server.running)
                        /\ Running.text = server.text[d]
                 [] Running.pc = "link" ->
                        /\ server'.running = Tail(server.running)
                        /\ server'.hasBeenIndexed[d]
                        /\ docClass'[d] # NoRef
                        /\ docClass'[d][2] = gen'[d]
                        /\ TreeNames(symbols', d, gen'[d]) = TreeNames(symbols, d, gen[d])
                 [] OTHER ->
                        server'.running
                            = <<[Running EXCEPT !.pc = IF @ = "invalidate" THEN "parse"
                                                       ELSE "link"]>>
                                 \o Tail(server.running)]_vars

\* C31, the text of the rebuild: the tree that the rebuild has parsed and is
\* about to link is the one of the editor's present text
C31_ParsedFromCurrentText ==
    (DirtyJob /\ Running.pc = "link") => BuiltFrom(Running.doc, server.text[Running.doc])

\* A document that had been indexed from one text has been rebuilt from
\* another for a change event
C31_Witness ==
    /\ StackIdle
    /\ server.events >= 2
    /\ server.hasBeenIndexed["x"]
    /\ server.text["x"] = 2
    /\ gen["x"] = 2
    /\ BuiltFrom("x", 2) /\ ~BuiltFrom("x", 1)


\* --------------------------------------------------- cyclic inheritance
NextCycles ==
    \/ \E d \in Docs : \E k \in 1..Len(AllTexts[d]) : IndexDocument(d, k)
    \/ \E d \in Docs : Invalidate(d)

SpecCycles == Init /\ [][NextCycles]_vars

\* The symbols of the trees the documents have at present
Live == UNION {Tree(symbols, d, gen[d]) : d \in {e \in Docs : docClass[e] # NoRef}}

\* h is reached from cur by following super links
RECURSIVE SuperReaches(_, _, _)
SuperReaches(h, cur, seen) ==
    IF cur \notin DOMAIN symbols THEN FALSE
    ELSE IF cur = h THEN TRUE
    ELSE IF cur \in seen THEN FALSE
    ELSE SuperReaches(h, symbols[cur].super, seen \cup {cur})

\* The super chain of h comes to an end
RECURSIVE SuperChainEnds(_, _)
SuperChainEnds(cur, seen) ==
    IF cur \notin DOMAIN symbols THEN TRUE
    ELSE IF cur \in seen THEN FALSE
    ELSE SuperChainEnds(symbols[cur].super, seen \cup {cur})

\* C32: after indexing, no struct-like symbol of a document's tree is
\* reachable from itself through super links, whatever inheritance the
\* sources declare.
C32_NoSuperCycle ==
    \A h \in Live : IsStruct(symbols, h) => ~SuperReaches(h, symbols[h].super, {})

\* C32, what the loops over super need: the super chain of every struct-like
\* symbol ends
C32_SuperChainsEnd ==
    \A h \in Live : IsStruct(symbols, h) => SuperChainEnds(h, {})


\* ------------------------------------------- rename with an invalid name
\* A rename request is answered in this step
RenameAnswered == response = NoResponse /\ response'.method = "rename"

\* C33: a rename request whose new name is no identifier is answered with
\* the invalid-parameters error "Invalid identifier!" and no edit, whatever
\* symbol stands at the position, and the reference index, the documents and
\* their symbols stay as they are.
C33_InvalidNameRejected ==
    [][(RenameAnswered /\ ~VALID_ID_REGEXP(response'.newName))
          => /\ response'.error = [code |-> "InvalidParams", message |-> "Invalid identifier!"]
             /\ response'.result = Undefined
             /\ UNCHANGED <<symbols, types, SymbolsTable, IndexedReferences, docClass,
                            docNodes, docRefs, gen>>]_vars

\* A rename to a name that is no identifier was rejected at a position whose
\* symbol has reference records in both documents, which a valid name would
\* have edited
C33_Witness ==
    /\ response.method = "rename"
    /\ ~VALID_ID_REGEXP(response.newName)
    /\ response.error.code = "InvalidParams"
    /\ response.result = Undefined
    /\ response.symbol \in DOMAIN symbols
    /\ symbols[response.symbol].kind # "Class"
    /\ {r.location.uri : r \in RecordsOfRequest} = Docs


\* ------------------------------------------------- statements and blocks
\* The statements and expressions a block under construction holds, at most
MaxStatements == 3

\* typeFlags of an info without a hint, getType() of an expression or a
\* context without a type
NoTypeFlags == "undefined"

\* An expression, as far as the statements see it: what getType() returns
\* (its type flags) and what its index leaves in the typeFlags of the info
\* it is given ("keep": nothing)
Expression(id, writes, type) == [id |-> id, writes |-> writes, type |-> type]

\* this.expression of a statement that has none
NoExpression == Expression(0, "keep", NoTypeFlags)

\* An element of block.statements that is undefined, this.then of a
\* statement that has none
NoStatement == [kind |-> "undefined"]

Statement(kind, expression, then) == [kind |-> kind, expression |-> expression, then |-> then]

UCBlock(statements) == [kind |-> "Block", statements |-> statements]

\* The state of an index call: the info objects created so far with their
\* typeFlags, and the calls logged. An info is the position of its object,
\* or 0 when the argument is undefined or not passed
NewIndex == [objs |-> <<>>, log |-> <<>>]

\* { typeFlags }: a new info object
NewInfo(ix, typeFlags) == [ix EXCEPT !.objs = Append(@, typeFlags)]

\* info.typeFlags, or undefined without an info
Hint(ix, info) == IF info = 0 THEN NoTypeFlags ELSE ix.objs[info]

Logged(ix, entry) == [ix EXCEPT !.log = Append(@, entry)]

\* What the index of expression e leaves in the info it was given
Written(ix, e, info) ==
    IF info # 0 /\ e.writes # "keep" THEN [ix EXCEPT !.objs[info] = e.writes] ELSE ix

\* this.expression?.index(document, context, info)
ExpressionIndex(ix, e, ctx, info) ==
    IF e.id = 0 THEN ix
    ELSE Written(Logged(ix, [what |-> "expression", id |-> e.id, document |-> ctx.document,
                             context |-> ctx.name, hint |-> Hint(ix, info)]),
                 e, info)

\* A block that leaves info.typeFlags as the statement left it
KeepTypeFlags(ix, own, typeFlags) == ix

\* info.typeFlags = typeFlags, after each statement of a block
ResetTypeFlags(ix, own, typeFlags) == [ix EXCEPT !.objs[own] = typeFlags]

RECURSIVE StatementIndex(_, _, _, _)

\* this.then?.index(document, context, info)
ThenIndex(ix, then, ctx, info) ==
    IF then.kind = "undefined" THEN ix ELSE StatementIndex(ix, then, ctx, info)

\* The loop of UCBlock.index from statement i on: each statement gets the
\* arguments of the call, then the block's info has its typeFlags reset
RECURSIVE BlockLoop(_, _, _, _, _, _, _)
BlockLoop(ix, statements, i, ctx, passed, own, typeFlags) ==
    IF i > Len(statements) THEN ix
    ELSE IF statements[i].kind = "undefined"
    THEN BlockLoop(ix, statements, i + 1, ctx, passed, own, typeFlags)
    ELSE BlockLoop(
            ResetTypeFlags(
                StatementIndex(Logged(ix, [what |-> "statement", document |-> ctx.document,
                                           context |-> ctx.name, received |-> typeFlags,
                                           hint |-> Hint(ix, passed)]),
                               statements[i], ctx, passed),
                own, typeFlags),
            statements, i + 1, ctx, passed, own, typeFlags)

\* The end of UCBlock.index: what the caller's info holds then
BlockEnd(ix, info, typeFlags) ==
    Logged(ix, [what |-> "blockEnd", received |-> typeFlags, hint |-> Hint(ix, info)])

\* UCBlock.index(document, context, info = {}): without an info the block
\* works on a new object, and its statements get the arguments as they were
\* passed
BlockIndex(ix, block, ctx, info) ==
    IF info = 0
    THEN BlockEnd(BlockLoop(NewInfo(ix, NoTypeFlags), block.statements, 1, ctx, 0,
                            Len(ix.objs) + 1, NoTypeFlags),
                  info, NoTypeFlags)
    ELSE BlockEnd(BlockLoop(ix, block.statements, 1, ctx, info, info, Hint(ix, info)),
                  info, Hint(ix, info))

\* UCThenStatement.index: the expression, then the statement under it
ThenStatementIndex(ix, s, ctx, info) ==
    ThenIndex(ExpressionIndex(ix, s.expression, ctx, info), s.then, ctx, info)

\* A return statement that passes the info on as it came
ReturnKeepsInfo(ix, s, ctx, info) == ExpressionIndex(ix, s.expression, ctx, info)

\* UCReturnStatement.index: with a context that has a type the expression
\* gets a new info with that type's flags
ReturnIndex(ix, s, ctx, info) ==
    IF ctx.type # NoTypeFlags
    THEN ExpressionIndex(NewInfo(ix, ctx.type), s.expression, ctx, Len(ix.objs) + 1)
    ELSE ExpressionIndex(ix, s.expression, ctx, info)

\* this.then?.index(document, context, info) of UCSwitchStatement.index
SwitchBody(ix, s, ctx, info, incoming, left) ==
    ThenIndex(Logged(ix, [what |-> "switchBody", id |-> s.expression.id,
                          type |-> s.expression.type, incoming |-> incoming,
                          left |-> left, hint |-> Hint(ix, info)]),
              s.then, ctx, info)

\* const type = this.expression.getType(); if (type) info = { typeFlags }
SwitchInfo(ix, s, ctx, info, incoming) ==
    IF s.expression.type # NoTypeFlags
    THEN SwitchBody(NewInfo(ix, s.expression.type), s, ctx, Len(ix.objs) + 1, incoming,
                    Hint(ix, info))
    ELSE SwitchBody(ix, s, ctx, info, incoming, Hint(ix, info))

\* UCSwitchStatement.index
SwitchIndex(ix, s, ctx, info) ==
    IF s.expression.id = 0
    THEN SwitchBody(ix, s, ctx, info, Hint(ix, info), Hint(ix, info))
    ELSE SwitchInfo(ExpressionIndex(ix, s.expression, ctx, info), s, ctx, info,
                    Hint(ix, info))

\* statement.index(document, context, info) by dynamic dispatch
StatementIndex(ix, s, ctx, info) ==
    CASE s.kind = "Block" -> BlockIndex(ix, s, ctx, info)
      [] s.kind = "Switch" -> SwitchIndex(ix, s, ctx, info)
      [] s.kind = "Return" ->
            ReturnIndex(Logged(ix, [what |-> "return", id |-> s.expression.id,
                                    type |-> ctx.type]),
                        s, ctx, info)
      [] s.kind = "Case" -> ThenStatementIndex(ix, s, ctx, info)
      [] OTHER -> ExpressionIndex(ix, s.expression, ctx, info)

\* The function whose block is built and indexed
Function == <<"x", 1, 1>>

\* The type flags a function's return type can have, and the type flags an
\* expression can have or leave in its info
ReturnFlags == {NoTypeFlags, "Float"}
ExpressionFlags == {NoTypeFlags, "Int"}
WrittenFlags == {"keep", "Byte"}

\* The next expression of the block under construction
NextExpression(writes, type) == Expression(symbols[Function].value + 1, writes, type)

\* The function's block gets the statements, with one more expression
Built(statements) ==
    /\ symbols[Function].value < MaxStatements
    /\ symbols' = [symbols EXCEPT ![Function].block = UCBlock(statements),
                                  ![Function].value = @ + 1]
    /\ last' = [last EXCEPT !.op = "build", !.log = <<>>]
    /\ UNCHANGED <<types, SymbolsTable, IndexedReferences, docClass, docNodes, docRefs,
                   gen, response, server>>

\* The source goes on with an expression statement, a case clause without
\* statements or a return statement
AppendStatement(kind, writes, type) ==
    Built(Append(symbols[Function].block.statements,
                 Statement(kind, NextExpression(writes, type), NoStatement)))

\* The source goes on with a return statement without an expression
AppendBare ==
    Built(Append(symbols[Function].block.statements,
                 Statement("Return", NoExpression, NoStatement)))

\* The statements read so far are the body of a switch statement whose
\* expression the parser could not build
WrapBare == Built(<<Statement("Switch", NoExpression, symbols[Function].block)>>)

\* The source has a statement the parser could not build
AppendUndefined ==
    /\ symbols[Function].block.statements # <<>>
    /\ Built(Append(symbols[Function].block.statements, NoStatement))

\* The statements read so far are the body of a switch statement or of a
\* case clause
WrapStatements(kind, writes, type) ==
    Built(<<Statement(kind, NextExpression(writes, type), symbols[Function].block)>>)

\* visitMethod of the document indexer: symbol.block.index(this.document, symbol)
IndexStatements ==
    /\ last' = [last EXCEPT
                   !.op = "indexBlock",
                   !.log = BlockIndex(NewIndex, symbols[Function].block,
                                      [document |-> "x", name |-> Function,
                                       type |-> symbols[Function].type], 0).log]
    /\ UNCHANGED <<symbols, types, SymbolsTable, IndexedReferences, docClass, docNodes,
                   docRefs, gen, response, server>>

\* A function with an empty block, with or without a return type
InitStatements ==
    /\ \E type \in ReturnFlags :
          symbols = (Function :> [BlockSymbol("Method", 1, UCBlock(<<>>))
                                     EXCEPT !.type = type, !.value = 0])
    /\ types = <<>>
    /\ SymbolsTable = <<>>
    /\ IndexedReferences = EmptyMap
    /\ docClass = [d \in Docs |-> NoRef]
    /\ docNodes = [d \in Docs |-> <<>>]
    /\ docRefs = [d \in Docs |-> EmptyMap]
    /\ gen = [d \in Docs |-> 0]
    /\ last = [op |-> "init", doc |-> "x", text |-> 0, again |-> FALSE, keys |-> {},
               threw |-> FALSE, escaped |-> FALSE, log |-> <<>>]
    /\ response = NoResponse
    /\ server = [configured |-> FALSE, documents |-> {}, subscribed |-> FALSE,
                 debounced |-> NoRequest, open |-> {}, text |-> [d \in Docs |-> 1],
                 hasBeenIndexed |-> [d \in Docs |-> FALSE], running |-> <<>>,
                 events |-> 0, analyzeDocuments |-> "OnlyActive", delayed |-> <<>>,
                 published |-> {}]

NextStatements ==
    \/ \E kind \in {"Expression", "Case", "Return"} :
       \E writes \in WrittenFlags : \E type \in ExpressionFlags :
          AppendStatement(kind, writes, type)
    \/ AppendBare
    \/ WrapBare
    \/ AppendUndefined
    \/ \E kind \in {"Switch", "Case"} :
       \E writes \in WrittenFlags : \E type \in ExpressionFlags :
          WrapStatements(kind, writes, type)
    \/ IndexStatements

SpecStatements == InitStatements /\ [][NextStatements]_vars

\* The calls of the kind `what` that the last index of the block logged
Calls(what) == {j \in DOMAIN last.log : last.log[j].what = what}

\* C34: every statement of a block is indexed with the document, the context
\* and the type hint the block received, whatever the statements before it
\* left in the hint, and when the block has been indexed the caller's hint
\* has its incoming value.
C34_StatementsGetBlockHint ==
    /\ \A j \in Calls("statement") :
          /\ last.log[j].hint = last.log[j].received
          /\ last.log[j].document = "x"
          /\ last.log[j].context = Function
    /\ \A j \in Calls("blockEnd") : last.log[j].hint = last.log[j].received

\* In a block that received a hint, a statement whose expression changed the
\* hint was followed by a statement that got the hint the block received
C34_Witness ==
    \E j \in Calls("statement") : \E k \in Calls("expression") :
        /\ j + 1 = k /\ k + 1 \in Calls("statement")
        /\ last.log[j].received = "Int"
        /\ \E s \in {symbols[Function].block.statements[1]} :
              /\ s.kind = "Switch"
              /\ s.then.statements[1].expression.writes = "Byte"
              /\ s.then.statements[1].expression.id = last.log[k].id
        /\ last.log[k + 1].hint = "Int"

\* The calls that indexed the expression with the given id
IndexedExpression(id) == {k \in Calls("expression") : last.log[k].id = id}

\* C35: a switch statement indexes its expression once and then its body
\* with the type flags of the expression as the hint if the expression has a
\* type, and else with the hint the statement came with; a return statement
\* in a context with a type indexes its expression with that type's flags as
\* the hint.
C35_SwitchAndReturnHints ==
    /\ \A j \in Calls("switchBody") :
          /\ last.log[j].id # 0 => Cardinality(IndexedExpression(last.log[j].id)) = 1
          /\ last.log[j].hint = IF last.log[j].type # NoTypeFlags THEN last.log[j].type
                                ELSE last.log[j].incoming
    /\ \A j \in Calls("return") :
          (last.log[j].id # 0 /\ last.log[j].type # NoTypeFlags) =>
              /\ j + 1 \in IndexedExpression(last.log[j].id)
              /\ last.log[j + 1].hint = last.log[j].type

\* What holds of the switch statement: its expression is indexed once, before
\* the body; the body of a switch on a typed expression gets the type's
\* flags, the body of a switch on an expression without a type gets the
\* hint as the index of the expression left it
C35_SwitchBodyGetsInfo ==
    \A j \in Calls("switchBody") :
        /\ last.log[j].id # 0 => IndexedExpression(last.log[j].id) = {j - 1}
        /\ last.log[j].hint = IF last.log[j].type # NoTypeFlags THEN last.log[j].type
                              ELSE last.log[j].left

\* The body of a switch on an expression without a type got another hint
\* than the switch statement
C35_HintChanged ==
    \E j \in Calls("switchBody") :
        /\ last.log[j].type = NoTypeFlags
        /\ last.log[j].incoming = "Int" /\ last.log[j].hint = "Byte"

\* What holds of the return statement: its expression is indexed once, with
\* the flags of the context's type if it has one
C35_ReturnHint ==
    \A j \in Calls("return") :
        last.log[j].id # 0 =>
            /\ IndexedExpression(last.log[j].id) = {j + 1}
            /\ last.log[j].type # NoTypeFlags => last.log[j + 1].hint = last.log[j].type


\* ------------------------------------------------------------- findSymbol
\* The predicates findSymbol is called with: the child is of one of the kinds
Predicates == {{"Method"}, {"Property"}, {"State", "Struct"}, {}}

\* isMethodSymbol(context) ? context.outer : context, and the outer of that
\* scope if it is a state
FindScope(sym, context) ==
    IF sym[context].kind = "Method"
    THEN IF IsField(sym, sym[context].outer) /\ sym[sym[context].outer].kind = "State"
         THEN sym[sym[context].outer].outer
         ELSE sym[context].outer
    ELSE IF sym[context].kind = "State" THEN sym[context].outer
    ELSE context

\* A loop that takes the first child named id, whatever the predicate
RECURSIVE FirstNamed(_, _, _, _, _)
FirstNamed(sym, child, id, predicate, bestChild) ==
    IF child = NoRef THEN [found |-> NoRef, bestChild |-> bestChild]
    ELSE IF sym[child].name = id THEN [found |-> child, bestChild |-> bestChild]
    ELSE FirstNamed(sym, sym[child].next, id, predicate, bestChild)

\* The inner loop of findSymbol over the children of one scope, from child
\* on: the child found, if any, and bestChild
RECURSIVE FindInChain(_, _, _, _, _)
FindInChain(sym, child, id, predicate, bestChild) ==
    IF child = NoRef THEN [found |-> NoRef, bestChild |-> bestChild]
    ELSE IF sym[child].name = id
    THEN IF sym[child].kind \in predicate
         THEN [found |-> child, bestChild |-> bestChild]
         ELSE FindInChain(sym, sym[child].next, id, predicate, child)
    ELSE FindInChain(sym, sym[child].next, id, predicate, bestChild)

RECURSIVE FindInScopes(_, _, _, _, _, _)

\* The outer loop after the children of scope gave r
FoundOrSuper(sym, scope, id, predicate, r, fuel) ==
    IF r.found # NoRef THEN r.found
    ELSE FindInScopes(sym, sym[scope].super, id, predicate, r.bestChild, fuel - 1)

\* The outer loop of findSymbol, for (; scope; scope = scope.super); a loop
\* that does not come to an end returns nothing
FindInScopes(sym, scope, id, predicate, bestChild, fuel) ==
    IF fuel = 0 THEN Thrown
    ELSE IF ~IsField(sym, scope) THEN bestChild
    ELSE FoundOrSuper(sym, scope, id, predicate,
                      FindInChain(sym, sym[scope].children, id, predicate, bestChild), fuel)

\* findSymbol(context, id, predicate)
findSymbol(sym, context, id, predicate) ==
    FindInScopes(sym, FindScope(sym, context), id, predicate, NoRef, MaxDepth)

\* The class-level scope of a context: the outer of a method, then the outer
\* of a state
ClassLevel(context) ==
    IF symbols[context].kind = "State" THEN symbols[context].outer
    ELSE IF symbols[context].kind # "Method" THEN context
    ELSE IF IsState(symbols[context].outer) THEN symbols[symbols[context].outer].outer
    ELSE symbols[context].outer

\* The children of a struct from child c on, in the order of the list
RECURSIVE ChildrenFrom(_)
ChildrenFrom(c) == IF c = NoRef THEN <<>> ELSE <<c>> \o ChildrenFrom(symbols[c].next)

\* The children named id in the list cs of the scope at position j
NamedIn(j, cs, id) == {<<j, k, cs[k]>> : k \in {i \in DOMAIN cs : symbols[cs[i]].name = id}}

\* The children named id of the scopes of the chain, each with the position
\* of its scope in the chain and its own position among the children
Named(chain, id) ==
    UNION {UNION {NamedIn(j, cs, id) : cs \in {ChildrenFrom(symbols[chain[j]].children)}} :
              j \in DOMAIN chain}

\* a is encountered before b: in a nearer scope, or earlier in the children
\* of the same scope
Before(a, b) ==
    \/ a[1] < b[1]
    \/ a[1] = b[1] /\ a[2] < b[2]

\* found is what the claim says of the children named id, in the order they
\* are encountered: the first that satisfies the predicate, else the last,
\* else undefined
FirstSatisfyingOrLast(found, named, predicate) ==
    IF named = {} THEN found = NoRef
    ELSE IF \E a \in named : symbols[a[3]].kind \in predicate
    THEN \E a \in named :
            /\ found = a[3]
            /\ symbols[a[3]].kind \in predicate
            /\ \A b \in named : Before(b, a) => symbols[b[3]].kind \notin predicate
    ELSE \E a \in named : found = a[3] /\ \A b \in named : ~Before(a, b)

\* The names of the children of the scopes of the chain, and a name that no
\* text declares
Declared(chain) == UNION {{symbols[m].name : m \in Members(chain[j])} : j \in DOMAIN chain}
Absent == "zz"

\* The struct symbols findSymbol is given as context
Contexts36 == UNION {{s \in LiveSymbols(d) : symbols[s].kind \in {"Class", "State", "Struct", "Method"}} : d \in Docs}

\* C36: findSymbol(context, id, predicate) searches the class-level scope of
\* the context and its super chain, nearest first, and returns the first
\* child named id that satisfies the predicate, else the last child named id
\* it encountered, else undefined.
C36_FindSymbol ==
    \A context \in Contexts36 :
        \E chain \in {SuperChain(ClassLevel(context), MaxDepth)} :
            \A id \in Declared(chain) \cup {Absent} :
                \E named \in {Named(chain, id)} :
                    \A predicate \in Predicates :
                        FirstSatisfyingOrLast(findSymbol(symbols, context, id, predicate),
                                              named, predicate)

\* With a state or a function as the context, the class and its superclass
\* both declare a name: the nearer child fails the predicate and the farther
\* one is returned; with a predicate that none satisfies the farther one is
\* returned too
C36_Witness ==
    \E context \in Contexts36 : \E id \in Names : \E predicate \in Predicates :
        /\ symbols[context].kind \in {"State", "Method"}
        /\ \E a, b \in Named(SuperChain(ClassLevel(context), MaxDepth), id) :
              /\ a[1] = 1 /\ b[1] = 2
              /\ symbols[a[3]].kind \notin predicate
              /\ symbols[b[3]].kind \in predicate
              /\ findSymbol(symbols, context, id, predicate) = b[3]
              /\ findSymbol(symbols, context, id, {}) = b[3]


\* --------------------------------------------- the children of a struct
MaxChildren == 3

\* Two structs and the field symbols that are added to and removed from them
Owner == <<"x", 1, 1>>
Other == <<"x", 1, 2>>
Owners == {Owner, Other}
Pool == {<<"x", 1, 2 + i>> : i \in 1..MaxChildren}

\* A removeSymbol that only unlinks the first child
RemoveFirstOnly(sym, struct, h) ==
    IF sym[struct].children = h
    THEN [sym EXCEPT ![struct].children = sym[h].next, ![h].next = NoRef]
    ELSE sym

\* The loop of removeSymbol: the first child from child on whose next is h
RECURSIVE ChildBefore(_, _, _)
ChildBefore(sym, child, h) ==
    IF child = NoRef THEN NoRef
    ELSE IF sym[child].next = h THEN child
    ELSE ChildBefore(sym, sym[child].next, h)

\* child.next = symbol.next; break
Unlink(sym, child, h) ==
    IF child = NoRef THEN sym ELSE [sym EXCEPT ![child].next = sym[h].next]

\* UCStructSymbol.removeSymbol(symbol)
RemoveSymbol(sym, struct, h) ==
    IF sym[struct].children = h
    THEN [sym EXCEPT ![struct].children = sym[h].next, ![h].next = NoRef]
    ELSE Unlink(sym, ChildBefore(sym, sym[struct].children, h), h)

\* UCStructSymbol.childrenCount(); a loop that does not come to an end
\* returns nothing
RECURSIVE CountFrom(_, _, _)
CountFrom(sym, child, fuel) ==
    IF child = NoRef THEN 0
    ELSE IF fuel = 0 THEN -1
    ELSE IF CountFrom(sym, sym[child].next, fuel - 1) = -1 THEN -1
    ELSE 1 + CountFrom(sym, sym[child].next, fuel - 1)

ChildrenCount(sym, struct) == CountFrom(sym, sym[struct].children, MaxChildren + 1)

\* The chain of children from child on, cut after fuel symbols
RECURSIVE ChildChain(_, _, _)
ChildChain(sym, child, fuel) ==
    IF child = NoRef \/ fuel = 0 THEN <<>>
    ELSE <<child>> \o ChildChain(sym, sym[child].next, fuel - 1)

Chain(struct) == ChildChain(symbols, symbols[struct].children, MaxChildren + 1)

InChain(struct, h) == \E j \in DOMAIN Chain(struct) : Chain(struct)[j] = h

\* s without h
Without(s, h) == SelectSeq(s, LAMBDA e : e # h)

\* struct.addSymbol(h) for a symbol that is in no chain; last.added keeps the
\* symbols added to each struct and not removed, the latest first
AddChild(struct, h) ==
    /\ \A o \in Owners : ~InChain(o, h)
    /\ symbols' = AddSymbol(symbols, struct, h)
    /\ last' = [last EXCEPT !.op = "addSymbol", !.struct = struct, !.symbol = h,
                            !.inChain = FALSE, !.changed = TRUE,
                            !.added[struct] = <<h>> \o @]
    /\ UNCHANGED <<types, SymbolsTable, IndexedReferences, docClass, docNodes, docRefs,
                   gen, response, server>>

\* struct.removeSymbol(h) for any symbol, a child of the struct or not;
\* last.changed tells whether the call changed a field of a symbol
RemoveChild(struct, h) ==
    /\ symbols' = RemoveSymbol(symbols, struct, h)
    /\ last' = [last EXCEPT !.op = "removeSymbol", !.struct = struct, !.symbol = h,
                            !.inChain = InChain(struct, h),
                            !.changed = (RemoveSymbol(symbols, struct, h) # symbols),
                            !.added[struct] = Without(@, h)]
    /\ UNCHANGED <<types, SymbolsTable, IndexedReferences, docClass, docNodes, docRefs,
                   gen, response, server>>

\* struct.childrenCount()
CountChildren(struct) ==
    /\ last' = [last EXCEPT !.op = "childrenCount", !.struct = struct, !.symbol = NoRef,
                            !.inChain = FALSE, !.changed = FALSE,
                            !.count = ChildrenCount(symbols, struct)]
    /\ UNCHANGED <<symbols, types, SymbolsTable, IndexedReferences, docClass, docNodes,
                   docRefs, gen, response, server>>

InitChildren ==
    /\ symbols = [h \in Owners \cup Pool |->
                     IF h \in Owners THEN NewSymbol("Struct", "s", <<h[3], 0>>)
                     ELSE NewSymbol("Property", "p", <<h[3], 0>>)]
    /\ types = <<>>
    /\ SymbolsTable = <<>>
    /\ IndexedReferences = EmptyMap
    /\ docClass = [d \in Docs |-> NoRef]
    /\ docNodes = [d \in Docs |-> <<>>]
    /\ docRefs = [d \in Docs |-> EmptyMap]
    /\ gen = [d \in Docs |-> 0]
    /\ last = [op |-> "init", struct |-> Owner, symbol |-> NoRef, inChain |-> FALSE,
               changed |-> FALSE, added |-> [o \in Owners |-> <<>>], count |-> 0]
    /\ response = NoResponse
    /\ server = [configured |-> FALSE, documents |-> {}, subscribed |-> FALSE,
                 debounced |-> NoRequest, open |-> {}, text |-> [d \in Docs |-> 1],
                 hasBeenIndexed |-> [d \in Docs |-> FALSE], running |-> <<>>,
                 events |-> 0, analyzeDocuments |-> "OnlyActive", delayed |-> <<>>,
                 published |-> {}]

NextChildren ==
    \/ \E struct \in Owners : \E h \in Pool : AddChild(struct, h)
    \/ \E struct \in Owners : \E h \in Pool : RemoveChild(struct, h)
    \/ \E struct \in Owners : CountChildren(struct)

SpecChildren == InitChildren /\ [][NextChildren]_vars

\* C37: after any addSymbol calls with symbols not in the chain and any
\* removeSymbol calls, the children chain of a struct ends, holds exactly the
\* symbols added and not removed, each once, the latest added first, each
\* with the struct as its outer; removeSymbol of a symbol that is not in the
\* chain changes nothing, and childrenCount is the length of the chain.
C37_ChildrenChain ==
    /\ \A struct \in Owners :
          /\ Len(Chain(struct)) <= MaxChildren
          /\ Chain(struct) = last.added[struct]
          /\ \A j, k \in DOMAIN Chain(struct) : Chain(struct)[j] = Chain(struct)[k] => j = k
          /\ \A j \in DOMAIN Chain(struct) : symbols[Chain(struct)[j]].outer = struct
    /\ (last.op = "removeSymbol" /\ ~last.inChain) => ~last.changed
    /\ last.op = "childrenCount" => last.count = Len(Chain(last.struct))

\* A child in the middle of a chain of three was removed, a symbol that is
\* not a child was removed after it, and the children were counted
C37_Witness ==
    /\ last.op = "childrenCount"
    /\ last.count = 2
    /\ \E h \in Pool :
          /\ symbols[h].next # NoRef
          /\ ~InChain(last.struct, h)
          /\ symbols[h].outer = last.struct


\* -------------------------------------------------------- class modifiers
MaxModifiers == 2

ModifierIds == {"dependson", "DependsOn", "implements", "native"}
ModifierValues == {<<"foo">>, <<"foo", "bar">>}

\* The modifiers a class declaration can carry, with and without arguments
Modifiers ==
    {BareModifier(id) : id \in ModifierIds}
        \cup {Modifier(id, values) : id \in ModifierIds, values \in ModifierValues}

ModifierLists == UNION {[1..n -> Modifiers] : n \in 0..MaxModifiers}

\* The class declaration of document d with its modifiers
ClassDecl(d, modifiers) ==
    [ev |-> "enterClassDecl", name |-> d, ext |-> NoName, tname |-> NoName,
     tkind |-> KindNone, members |-> <<>>, modifiers |-> modifiers]

\* indexDocument(document) for a document that is a class declaration with
\* modifiers, the first document that is indexed
IndexClassDecl(d, modifiers) ==
    /\ \A e \in Docs : gen[e] = 0
    /\ IndexText(d, 0, <<ClassDecl(d, modifiers)>>)

NextModifiers ==
    \E d \in Docs : \E modifiers \in ModifierLists : IndexClassDecl(d, modifiers)

SpecModifiers == Init /\ [][NextModifiers]_vars

\* The values of the modifiers named id, in the order of the declaration
RECURSIVE ArgumentsOf(_, _, _)
ArgumentsOf(modifiers, id, m) ==
    IF m > Len(modifiers) THEN <<>>
    ELSE IF ToLowerCase(modifiers[m].id) = id /\ modifiers[m].arguments
    THEN modifiers[m].values \o ArgumentsOf(modifiers, id, m + 1)
    ELSE ArgumentsOf(modifiers, id, m + 1)

\* The names of the types of a list
TypeNames(list) == [j \in DOMAIN list.types |-> list.types[j].name]

\* The classes that documents declared
DeclaredClasses == {docClass[d] : d \in {e \in Docs : docClass[e] # NoRef}}

\* C38: when a class declaration is built the arguments of its dependson
\* modifiers are recorded in the dependsOn list only and the arguments of
\* its implements modifiers in the implements list only.
C38_ModifiersKeptApart ==
    \A c \in DeclaredClasses :
        /\ TypeNames(symbols[c].dependsOnTypes)
              = ArgumentsOf(ModifierNodes(symbols[c].context), "dependson", 1)
        /\ TypeNames(symbols[c].implementsTypes)
              = ArgumentsOf(ModifierNodes(symbols[c].context), "implements", 1)

\* What holds of the dependsOn list alone
C38_DependsOnRecorded ==
    \A c \in DeclaredClasses :
        TypeNames(symbols[c].dependsOnTypes)
            = ArgumentsOf(ModifierNodes(symbols[c].context), "dependson", 1)

\* A class with a dependson modifier and no implements modifier has been
\* built
C38_DependsOnBuilt ==
    \E c \in DeclaredClasses :
        /\ ArgumentsOf(ModifierNodes(symbols[c].context), "dependson", 1) # <<>>
        /\ ArgumentsOf(ModifierNodes(symbols[c].context), "implements", 1) = <<>>

====
